---- MODULE Spec2Model ----
(***************************************************************************)
(* Tool Studio server (src/tool_studio_server.py): the job store, the job  *)
(* workers (demo simulator and live subprocess runner), the HTTP handler   *)
(* with its origin check, rate limiter and admission gate, the bounded     *)
(* job log and the artifact path checks.                                   *)
(*                                                                         *)
(* A Python str is a sequence of tokens; a token is a TLA+ string that     *)
(* stands for one character where the code inspects characters ("\n",      *)
(* " ", letters of a name) and for a run of characters in fixed message    *)
(* texts.  An optional value (x | None) is the set {} or {x}.  A path is   *)
(* a record [abs, parts] whose parts are strs.                             *)
(***************************************************************************)
EXTENDS Integers, Sequences, FiniteSets, TLC

(***************************************************************************)
(* Bounds of the model.                                                    *)
(***************************************************************************)
\* jobs ever created in one behaviour
MaxJobs == 2
\* the clock stops at MaxTime
MaxTime == 2
\* the server's clock is read at instants ClockStep seconds apart: more
\* than the retention and the rate window
ClockStep == 2
\* lines a child process writes to its output stream (SpecWorker, SpecPath)
MaxLines == 2
\* lines of the long-running child of SpecLog
MaxLogCalls == 1700
\* take_rate_slot calls in one behaviour of SpecRate
MaxRateCalls == 6

(***************************************************************************)
(* Settings read from the environment (lines 68-74).  The model runs the   *)
(* deployment TOOL_STUDIO_MAX_RUNNING_JOBS=1, a retention and a rate       *)
(* window of one second, and budgets of 2 POST and 3 GET per window.       *)
(***************************************************************************)
MAX_RUNNING_JOBS == 1
JOB_RETENTION_SEC == 1
RATE_WINDOW_SEC == 1
RATE_GET_MAX == 3
RATE_POST_MAX == 2
\* append_log: the cap of a job's log and the block dropped beyond it
LOG_CAP == 1200
LOG_DROP == 400

None == {}
Some(v) == {v}
TheValue(opt) == CHOOSE v \in opt : TRUE

Modes == {"demo", "live"}
ApiKeys == {<<>>, <<"s3cret">>}
TOOL_DEFS == {"competitive-deep-dive", "protocol-positioning"}
Terminal == {"succeeded", "failed"}

(***************************************************************************)
(* str helpers                                                             *)
(***************************************************************************)
Whitespace == {" ", "\t", "\n", "\r"}

RECURSIVE rstrip(_, _)
rstrip(s, chars) ==
    IF s # <<>> /\ s[Len(s)] \in chars
    THEN rstrip(SubSeq(s, 1, Len(s) - 1), chars)
    ELSE s

RECURSIVE lstrip(_, _)
lstrip(s, chars) ==
    IF s # <<>> /\ s[1] \in chars THEN lstrip(Tail(s), chars) ELSE s

strip(s) == lstrip(rstrip(s, Whitespace), Whitespace)


(***************************************************************************)
(* build_stdin (lines 250-283).  A payload is a function from the field    *)
(* names the request carried to their str values.                          *)
(***************************************************************************)
\* (payload.get(k) or "").strip()
PayloadGet(payload, k) ==
    strip(IF k \in DOMAIN payload THEN payload[k] ELSE <<>>)

RECURSIVE JoinLines(_)
JoinLines(lines) ==
    IF lines = <<>> THEN <<>>
    ELSE IF Len(lines) = 1 THEN lines[1]
    ELSE lines[1] \o <<"\n">> \o JoinLines(Tail(lines))

Raise(msg) == [raised |-> TRUE, value |-> msg]
Return(v) == [raised |-> FALSE, value |-> v]

\* build_stdin without the checks of lines 253, 268 and 270
build_stdin_unchecked(tool, payload) ==
    IF tool \in {"competitive-deep-dive", "protocol-positioning"}
    THEN Return(JoinLines(<< PayloadGet(payload, "your_protocol_name"),
                             PayloadGet(payload, "competitor_name"),
                             <<>> >>) \o <<"\n">>)
    ELSE Raise(<<"unsupported tool">>)

build_stdin(tool, payload) ==
    IF tool = "competitive-deep-dive"
    THEN LET competitor_name == PayloadGet(payload, "competitor_name")
         IN  IF competitor_name = <<>>
             THEN Raise(<<"competitor_name is required">>)
             ELSE Return(JoinLines(<< <<"1">>,
                                      PayloadGet(payload, "your_project"),
                                      competitor_name,
                                      PayloadGet(payload, "competitor_website"),
                                      PayloadGet(payload, "competitor_context"),
                                      <<>> >>) \o <<"\n">>)
    ELSE IF tool = "protocol-positioning"
    THEN LET your_protocol == PayloadGet(payload, "your_protocol_name")
             competitor_name == PayloadGet(payload, "competitor_name")
         IN  IF your_protocol = <<>>
             THEN Raise(<<"your_protocol_name is required">>)
             ELSE IF competitor_name = <<>>
             THEN Raise(<<"competitor_name is required">>)
             ELSE Return(JoinLines(<< your_protocol,
                                      PayloadGet(payload, "your_protocol_website"),
                                      PayloadGet(payload, "your_protocol_context"),
                                      competitor_name,
                                      PayloadGet(payload, "competitor_website"),
                                      PayloadGet(payload, "competitor_context"),
                                      <<>> >>) \o <<"\n">>)
    ELSE Raise(<<"unsupported tool">>)

(***************************************************************************)
(* _slug (lines 286-287)                                                   *)
(***************************************************************************)
UpperCase == <<"A","B","C","D","E","F","G","H","I","J","K","L","M",
               "N","O","P","Q","R","S","T","U","V","W","X","Y","Z">>
LowerCase == <<"a","b","c","d","e","f","g","h","i","j","k","l","m",
               "n","o","p","q","r","s","t","u","v","w","x","y","z">>
Digits == {"0","1","2","3","4","5","6","7","8","9"}
SlugChars == {LowerCase[i] : i \in 1..26} \cup Digits

lower(c) ==
    IF \E i \in 1..26 : UpperCase[i] = c
    THEN LowerCase[CHOOSE i \in 1..26 : UpperCase[i] = c]
    ELSE c

\* re.sub(r"[^a-z0-9]+", "-", s): inRun says the previous character was
\* already replaced
RECURSIVE SlugSub(_, _)
SlugSub(s, inRun) ==
    IF s = <<>> THEN <<>>
    ELSE IF s[1] \in SlugChars
    THEN <<s[1]>> \o SlugSub(Tail(s), FALSE)
    ELSE (IF inRun THEN <<>> ELSE <<"-">>) \o SlugSub(Tail(s), TRUE)

_slug(text) ==
    LET lowered == [i \in 1..Len(text) |-> lower(text[i])]
        dashed == SlugSub(lowered, FALSE)
        trimmed == lstrip(rstrip(dashed, {"-"}), {"-"})
    IN  IF trimmed = <<>> THEN <<"p","r","o","j","e","c","t">> ELSE trimmed

(***************************************************************************)
(* append_log (lines 180-186)                                              *)
(***************************************************************************)
\* append_log without lines 185-186
append_log_keep_all(job, line) ==
    LET clean == rstrip(line, {"\n"})
    IN  IF clean = <<>> THEN job
        ELSE [job EXCEPT !.logs = Append(@, clean)]

append_log(job, line) ==
    LET clean == rstrip(line, {"\n"})
        logs == Append(job.logs, clean)
    IN  IF clean = <<>> THEN job
        ELSE IF Len(logs) > LOG_CAP
        THEN [job EXCEPT !.logs = SubSeq(logs, LOG_DROP + 1, Len(logs))]
        ELSE [job EXCEPT !.logs = logs]

(***************************************************************************)
(* Paths.  The file system is a record [files, dirs, links]: the regular   *)
(* files and the directories (resolved absolute parts), and the symbolic   *)
(* links (parts -> absolute target path).                                  *)
(***************************************************************************)
Dot == <<".">>
DotDot == <<"..">>
AbsPath(parts) == [abs |-> TRUE, parts |-> parts]
RelPath(parts) == [abs |-> FALSE, parts |-> parts]
\* Path.__truediv__: an absolute right operand replaces the left one
JoinPath(base, p) == IF p.abs THEN p ELSE [base EXCEPT !.parts = @ \o p.parts]

BASE_DIR == AbsPath(<< <<"srv">>, <<"studio">> >>)
TOOLS_ROOT == AbsPath(<< <<"srv">> >>)
ARTIFACT_ROOT == AbsPath(<< <<"tmp">>, <<"tool-studio-artifacts">> >>)
ToolRepo(tool) == JoinPath(TOOLS_ROOT, RelPath(<< <<tool>> >>))

\* Path.resolve(): drop ".", apply "..", follow symbolic links
RECURSIVE Walk(_, _, _)
Walk(acc, rest, links) ==
    IF rest = <<>> THEN acc
    ELSE LET c == Head(rest)
             nxt == Append(acc, c)
         IN  IF c = Dot THEN Walk(acc, Tail(rest), links)
             ELSE IF c = DotDot
             THEN Walk(IF acc = <<>> THEN <<>> ELSE SubSeq(acc, 1, Len(acc) - 1),
                       Tail(rest), links)
             ELSE IF nxt \in DOMAIN links
             THEN Walk(<<>>, links[nxt].parts \o Tail(rest), links)
             ELSE Walk(nxt, Tail(rest), links)

resolve(p, disk) ==
    AbsPath(Walk(<<>>, (IF p.abs THEN <<>> ELSE BASE_DIR.parts) \o p.parts, disk.links))

\* p.relative_to(root) does not raise ValueError
relative_to(p, root) ==
    /\ Len(root.parts) <= Len(p.parts)
    /\ SubSeq(p.parts, 1, Len(root.parts)) = root.parts

is_file(p, disk) == p.parts \in disk.files
exists(p, disk) == p.parts \in disk.files \/ p.parts \in disk.dirs

\* Path(text): split at "/", empty components dropped
RECURSIVE SplitParts(_, _)
SplitParts(s, cur) ==
    IF s = <<>> THEN (IF cur = <<>> THEN <<>> ELSE <<cur>>)
    ELSE IF s[1] = "/"
    THEN (IF cur = <<>> THEN <<>> ELSE <<cur>>) \o SplitParts(Tail(s), <<>>)
    ELSE SplitParts(Tail(s), Append(cur, s[1]))

ParsePath(s) ==
    [abs |-> s # <<>> /\ s[1] = "/", parts |-> SplitParts(s, <<>>)]

(***************************************************************************)
(* register_artifact (lines 189-201); uid is uuid.uuid4().hex[:8]          *)
(***************************************************************************)
\* register_artifact without the loop of lines 191-193
register_artifact_no_dedup(job, label, file_path, uid, disk) ==
    LET p == resolve(file_path, disk)
    IN  [job EXCEPT !.artifacts =
            Append(@, [id |-> uid, label |-> label,
                       name |-> p.parts[Len(p.parts)], path |-> p])]

register_artifact(job, label, file_path, uid, disk) ==
    LET p == resolve(file_path, disk)
    IN  IF \E i \in 1..Len(job.artifacts) : job.artifacts[i].path = p
        THEN job
        ELSE [job EXCEPT !.artifacts =
                Append(@, [id |-> uid, label |-> label,
                           name |-> p.parts[Len(p.parts)], path |-> p])]

(***************************************************************************)
(* _safe_artifact_path (lines 204-214): {} is None                         *)
(***************************************************************************)
\* _safe_artifact_path that compares the path before resolving it
_safe_artifact_path_unresolved(tool, raw_path, disk) ==
    LET tool_repo == resolve(ToolRepo(tool), disk)
        p == JoinPath(tool_repo, ParsePath(strip(raw_path)))
    IN  IF ~relative_to(p, tool_repo) THEN None
        ELSE IF ~exists(resolve(p, disk), disk) \/ ~is_file(resolve(p, disk), disk) THEN None
        ELSE Some(resolve(p, disk))

_safe_artifact_path(tool, raw_path, disk) ==
    LET tool_repo == resolve(ToolRepo(tool), disk)
        p == resolve(JoinPath(tool_repo, ParsePath(strip(raw_path))), disk)
    IN  IF ~relative_to(p, tool_repo) THEN None
        ELSE IF ~exists(p, disk) \/ ~is_file(p, disk) THEN None
        ELSE Some(p)

(***************************************************************************)
(* is_path_safe_for_job (lines 217-229)                                    *)
(***************************************************************************)
JobDir(id) == JoinPath(ARTIFACT_ROOT, RelPath(<< <<ToString(id)>> >>))

is_path_safe_for_job(id, tool, p0, disk) ==
    LET p == resolve(p0, disk)
        roots == {JobDir(id)} \cup
                 (IF tool \in TOOL_DEFS THEN {resolve(ToolRepo(tool), disk)} ELSE {})
    IN  \E root \in roots : relative_to(p, root)


(***************************************************************************)
(* maybe_register_artifact_from_line (lines 232-247) with ARTIFACT_RE      *)
(* (line 122): a marker, optional blanks, ":", optional blanks, then the   *)
(* rest of the line.                                                       *)
(***************************************************************************)
Markers == {"Markdown", "Word doc", "Research data saved"}

\* the text of group(1) of a match that starts at token i, {} if none
MatchAt(line, i) ==
    LET content == IF line # <<>> /\ line[Len(line)] = "\n"
                   THEN SubSeq(line, 1, Len(line) - 1) ELSE line
        afterMarker == lstrip(SubSeq(content, i + 1, Len(content)), Whitespace)
        rest == IF afterMarker = <<>> THEN <<>> ELSE Tail(afterMarker)
    IN  IF /\ i <= Len(content)
           /\ content[i] \in Markers
           /\ afterMarker # <<>>
           /\ afterMarker[1] = ":"
           /\ rest # <<>>
           /\ \A k \in 1..Len(rest) : rest[k] # "\n"
        THEN Some(strip(rest))
        ELSE None

\* ARTIFACT_RE.search(line): the leftmost match
ArtifactMatch(line) ==
    LET hits == {i \in 1..Len(line) : MatchAt(line, i) # None}
    IN  IF hits = {} THEN None
        ELSE MatchAt(line, CHOOSE i \in hits : \A k \in hits : i <= k)

Contains(line, tok) == \E i \in 1..Len(line) : line[i] = tok

maybe_register_artifact_from_line(job, line, uid, disk) ==
    LET m == ArtifactMatch(line)
        path == IF m = None THEN None
                ELSE _safe_artifact_path(job.tool, TheValue(m), disk)
        label == IF Contains(line, "Markdown") THEN "Markdown"
                 ELSE IF Contains(line, "Word doc") THEN "Word"
                 ELSE IF Contains(line, "Research data saved") THEN "Research JSON"
                 ELSE "File"
    IN  IF m = None \/ path = None THEN job
        ELSE register_artifact(job, label, TheValue(path), uid, disk)

(***************************************************************************)
(* cleanup_jobs (lines 162-177): the ids left in the store.  finished_at   *)
(* is written by utc_now_iso only, so fromisoformat never raises.          *)
(***************************************************************************)
\* a sweep that removes every finished job, whatever its age
cleanup_jobs_all(store, objs, t) ==
    store \ {id \in store : objs[id].finished_at # None}

cleanup_jobs(store, objs, t) ==
    LET cutoff == t - JOB_RETENTION_SEC
        stale_ids == {id \in store :
                        /\ objs[id].finished_at # None
                        /\ TheValue(objs[id].finished_at) < cutoff}
    IN  store \ stale_ids

(***************************************************************************)
(* current_running_jobs (lines 457-459)                                    *)
(***************************************************************************)
\* current_running_jobs that counts the running jobs only
current_running_jobs_started(store, objs) ==
    Cardinality({id \in store : objs[id].status = "running"})

current_running_jobs(store, objs) ==
    Cardinality({id \in store : objs[id].status \in {"queued", "running"}})

\* the admission gate of do_POST (line 567)
gate_full_off_by_one(store, objs) ==
    current_running_jobs(store, objs) > MAX_RUNNING_JOBS

gate_full(store, objs) ==
    current_running_jobs(store, objs) >= MAX_RUNNING_JOBS

(***************************************************************************)
(* take_rate_slot (lines 462-474): [ok, buckets]                           *)
(***************************************************************************)
RECURSIVE DropOld(_, _)
DropOld(q, cutoff) ==
    IF q # <<>> /\ q[1] < cutoff THEN DropOld(Tail(q), cutoff) ELSE q

\* take_rate_slot that records the call before it looks at the budget
take_rate_slot_counts_rejected(buckets, ip, method, t) ==
    LET key == <<ip, method>>
        max_hits == IF method = "POST" THEN RATE_POST_MAX ELSE RATE_GET_MAX
        q0 == IF key \in DOMAIN buckets THEN buckets[key] ELSE <<>>
        q == DropOld(q0, t - RATE_WINDOW_SEC)
    IN  [ok |-> Len(q) < max_hits, buckets |-> (key :> Append(q, t)) @@ buckets]

\* take_rate_slot with > for >= at line 471
take_rate_slot_one_more(buckets, ip, method, t) ==
    LET key == <<ip, method>>
        max_hits == IF method = "POST" THEN RATE_POST_MAX ELSE RATE_GET_MAX
        q0 == IF key \in DOMAIN buckets THEN buckets[key] ELSE <<>>
        q == DropOld(q0, t - RATE_WINDOW_SEC)
    IN  IF Len(q) > max_hits
        THEN [ok |-> FALSE, buckets |-> (key :> q) @@ buckets]
        ELSE [ok |-> TRUE, buckets |-> (key :> Append(q, t)) @@ buckets]

take_rate_slot(buckets, ip, method, t) ==
    LET key == <<ip, method>>
        max_hits == IF method = "POST" THEN RATE_POST_MAX ELSE RATE_GET_MAX
        q0 == IF key \in DOMAIN buckets THEN buckets[key] ELSE <<>>
        q == DropOld(q0, t - RATE_WINDOW_SEC)
    IN  IF Len(q) >= max_hits
        THEN [ok |-> FALSE, buckets |-> (key :> q) @@ buckets]
        ELSE [ok |-> TRUE, buckets |-> (key :> Append(q, t)) @@ buckets]

(***************************************************************************)
(* StudioHandler._origin_allowed (489-493) and ._authorized (501-506)      *)
(***************************************************************************)
\* the default list of lines 76-86 (TOOL_STUDIO_ALLOWED_ORIGINS unset)
ALLOWED_ORIGINS ==
    {<<"https://web3growthlab.com">>, <<"https://www.web3growthlab.com">>,
     <<"https://api.web3growthlab.com">>,
     <<"http://localhost:8443">>, <<"https://localhost:8443">>,
     <<"http://localhost:8450">>, <<"https://localhost:8450">>}

_origin_allowed(origin) ==
    IF strip(origin) = <<>> THEN TRUE ELSE strip(origin) \in ALLOWED_ORIGINS

_authorized(mode, api_key, header) ==
    IF mode # "live" THEN TRUE
    ELSE IF api_key = <<>> THEN FALSE
    ELSE strip(header) = api_key

(***************************************************************************)
(* State                                                                   *)
(***************************************************************************)
VARIABLES
    MODE,           \* TOOL_STUDIO_MODE (line 56)
    API_KEY,        \* TOOL_STUDIO_API_KEY (line 68)
    now,            \* time.time(), whole seconds
    JOBS,           \* the ids in the JOBS dict (line 156)
    jobs,           \* the Job objects ever created, by id
    args,           \* the payload handed to each worker thread
    pc,             \* where each worker thread is
    exc,            \* the exception a live worker is handling
    child,          \* the child process of each live worker
    calls,          \* lines each worker has read from its child's output
    script,         \* the lines the external tool prints when it is run
    h,              \* the HTTP server's single request thread
    RATE_BUCKETS,   \* line 158
    rate_log,       \* the take_rate_slot calls made so far (SpecRate)
    fs,             \* the file system
    JOBS_LOCK,      \* line 157: the thread that holds it (0: the handler)
    RATE_LOCK,      \* line 159: the thread that holds it
    todo            \* the rest of the with JOBS_LOCK block a worker is in

vars == <<MODE, API_KEY, now, JOBS, jobs, args, pc, exc, child, calls, script,
          h, RATE_BUCKETS, rate_log, fs, JOBS_LOCK, RATE_LOCK, todo>>

\* no worker is inside a with JOBS_LOCK block
NoBlock == [writes |-> <<>>, next |-> ""]

\* Job(id=..., tool=...) (lines 125-136)
NewJob(id, tool) ==
    [id |-> id, tool |-> tool, status |-> "queued",
     started_at |-> None, finished_at |-> None, return_code |-> None,
     error |-> None, logs |-> <<>>, artifacts |-> <<>>]

NoChild == [state |-> "none", rc |-> 0]
Alive(c) == c.state \in {"running", "closed"}

\* the file system at start: the artifact root (created by main, line 718),
\* with or without the tool repositories; one repository holds a report and
\* a symbolic link that leads out of it
ReportParts == ToolRepo("competitive-deep-dive").parts \o << <<"report.md">> >>
LinkParts == ToolRepo("competitive-deep-dive").parts \o << <<"link.md">> >>
SecretParts == << <<"etc">>, <<"passwd">> >>
FsBase == [files |-> {SecretParts},
           dirs |-> {ARTIFACT_ROOT.parts, TOOLS_ROOT.parts, <<>>, << <<"etc">> >>},
           links |-> <<>>]
FsWithRepos == [files |-> FsBase.files \cup {ReportParts},
                dirs |-> FsBase.dirs \cup {ToolRepo(t).parts : t \in TOOL_DEFS},
                links |-> (LinkParts :> AbsPath(SecretParts))]

(***************************************************************************)
(* Requests and responses                                                  *)
(***************************************************************************)
Acme == <<"A", "c", "m", "e">>
Payloads == {
    [competitor_name |-> Acme, your_protocol_name |-> <<"U", "n", "i">>],
    [competitor_name |-> Acme],
    [competitor_name |-> <<" ", "\n">>, your_protocol_name |-> <<"U", "n", "i">>],
    [your_protocol_name |-> <<>>] }
NoPayload == [your_project |-> <<>>]
ToolNames == TOOL_DEFS \cup {"nope"}

Req(method, origin, key, ip, kind, tool, payload, job_id, artifact_id) ==
    [method |-> method, origin |-> origin, key |-> key, ip |-> ip,
     kind |-> kind, tool |-> tool, payload |-> payload, job_id |-> job_id,
     artifact_id |-> artifact_id]
NoReq == Req("", <<>>, <<>>, "", "", "", NoPayload, 0, <<>>)

\* a response: the status code, the error or the kind of body, the job id of
\* a 202, the job view of a poll, the file sent by a download
Resp(code, msg, job_id, view, file) ==
    [code |-> code, msg |-> msg, job_id |-> job_id, view |-> view, file |-> file]
NoResp == Resp(0, "", None, None, None)
Error(code, msg) == Resp(code, msg, None, None, None)

Idle == [pc |-> "idle", req |-> NoReq, resp |-> NoResp]
Sent(req, resp) == [pc |-> "sent", req |-> req, resp |-> resp]

\* Job.to_json (lines 138-153)
to_json(job) ==
    [id |-> job.id, tool |-> job.tool, status |-> job.status,
     started_at |-> job.started_at, finished_at |-> job.finished_at,
     return_code |-> job.return_code, error |-> job.error,
     logs |-> SubSeq(job.logs,
                     IF Len(job.logs) > 300 THEN Len(job.logs) - 299 ELSE 1,
                     Len(job.logs)),
     artifacts |-> [i \in 1..Len(job.artifacts) |->
                      [id |-> job.artifacts[i].id,
                       label |-> job.artifacts[i].label,
                       name |-> job.artifacts[i].name]]]

\* what the external tool prints: a report it wrote, and nothing else
ReportLine == <<"Markdown", ":", " ", "report.md", "\n">>

\* the server after main() has started it: no job, no request
Init ==
    /\ MODE \in Modes
    /\ API_KEY \in (IF MODE = "live" THEN ApiKeys ELSE {<<>>})
    /\ fs \in (IF MODE = "live" THEN {FsWithRepos, FsBase} ELSE {FsBase})
    /\ script = <<ReportLine>>
    /\ now = 0
    /\ JOBS = {}
    /\ jobs = <<>>
    /\ args = <<>>
    /\ pc = <<>>
    /\ exc = <<>>
    /\ child = <<>>
    /\ calls = <<>>
    /\ h = Idle
    /\ RATE_BUCKETS = <<>>
    /\ rate_log = <<>>
    /\ JOBS_LOCK = {}
    /\ RATE_LOCK = {}
    /\ todo = NoBlock

(***************************************************************************)
(* The job workers: threading.Thread(target=run_job) (lines 588-589).      *)
(* Each action is one stretch of the worker between two points where it    *)
(* takes JOBS_LOCK or blocks.                                              *)
(***************************************************************************)
WorkerVarsUnchanged ==
    UNCHANGED <<MODE, API_KEY, now, JOBS, script, h, RATE_BUCKETS, rate_log,
                   JOBS_LOCK, RATE_LOCK, todo>>

\* the worker goes on to label; e, c and n are its locals ex, proc and the
\* lines read so far
Goes(j, label, e, c, n) ==
    /\ pc' = [pc EXCEPT ![j] = label]
    /\ exc' = [exc EXCEPT ![j] = e]
    /\ child' = [child EXCEPT ![j] = c]
    /\ calls' = [calls EXCEPT ![j] = n]
    /\ UNCHANGED args

GoTo(j, label) == Goes(j, label, exc[j], child[j], calls[j])

\* the thread ends (run_job returns, or an exception leaves it): its
\* locals, the payload and the Popen object among them, are gone
Ends(j, label) ==
    /\ pc' = [pc EXCEPT ![j] = label]
    /\ exc' = [exc EXCEPT ![j] = <<>>]
    /\ child' = [child EXCEPT ![j] = NoChild]
    /\ calls' = [calls EXCEPT ![j] = 0]
    /\ args' = [args EXCEPT ![j] = NoPayload]

SetJob(j, job) == jobs' = [jobs EXCEPT ![j] = job]

\* a worker that marks its job finished where it should mark it running
MarkRunning_succeeded(job, t) ==
    [job EXCEPT !.status = "succeeded", !.started_at = Some(t)]

\* lines 291-293 and 392-394
MarkRunning(job, t) ==
    [job EXCEPT !.status = "running", !.started_at = Some(t)]

\* lines 381-384, 397-401, 433-438, 442-446
MarkFinished(job, t, rc, status, error) ==
    [job EXCEPT !.return_code = Some(rc), !.finished_at = Some(t),
                !.status = status, !.error = error]

\* run_job -> run_demo_job, lines 291-293
DemoStart(j) ==
    /\ pc[j] = "run_job"
    /\ MODE # "live"
    /\ SetJob(j, MarkRunning(jobs[j], now))
    /\ GoTo(j, "demo_mkdir")
    /\ UNCHANGED fs
    /\ WorkerVarsUnchanged

\* lines 295-301
DemoTarget(payload) ==
    IF "competitor_name" \in DOMAIN payload /\ payload["competitor_name"] # <<>>
    THEN payload["competitor_name"]
    ELSE IF "your_protocol_name" \in DOMAIN payload
            /\ payload["your_protocol_name"] # <<>>
    THEN payload["your_protocol_name"]
    ELSE IF "your_project" \in DOMAIN payload /\ payload["your_project"] # <<>>
    THEN payload["your_project"]
    ELSE <<"p","r","o","j","e","c","t">>

\* lines 303-311: the sandbox directory, then three paced log lines
DemoMkdir(j) ==
    /\ pc[j] = "demo_mkdir"
    /\ fs' = [fs EXCEPT !.dirs = @ \cup {resolve(JobDir(j), fs).parts}]
    /\ SetJob(j, append_log(append_log(append_log(jobs[j],
            <<"[demo] Starting ", jobs[j].tool, " for ">> \o DemoTarget(args[j])
                \o <<"...">>),
            <<"[demo] Pulling market and narrative signals...">>),
            <<"[demo] Synthesizing executive recommendations...">>))
    /\ GoTo(j, "demo_write")
    /\ WorkerVarsUnchanged

\* line 304 raises OSError: nothing in run_demo_job or run_job catches it
DemoMkdirFails(j) ==
    /\ pc[j] = "demo_mkdir"
    /\ Ends(j, "crashed")
    /\ UNCHANGED <<jobs, fs>>
    /\ WorkerVarsUnchanged

DemoFiles(j) ==
    LET slug == _slug(DemoTarget(args[j]))
        dir == resolve(JobDir(j), fs)
    IN  IF jobs[j].tool = "competitive-deep-dive"
        THEN << [label |-> "Markdown",
                 path |-> JoinPath(dir, RelPath(<< <<"demo_deepdive_">> \o slug \o <<".md">> >>))],
                [label |-> "Research JSON",
                 path |-> JoinPath(dir, RelPath(<< <<"demo_deepdive_">> \o slug \o <<".json">> >>))] >>
        ELSE << [label |-> "Markdown",
                 path |-> JoinPath(dir, RelPath(<< <<"demo_positioning_">> \o slug \o <<".md">> >>))],
                [label |-> "Matrix CSV",
                 path |-> JoinPath(dir, RelPath(<< <<"demo_positioning_">> \o slug \o <<".csv">> >>))] >>

Uid(j, n) == <<ToString(j), "-", ToString(n)>>

\* lines 313-378: two files written, then both registered
DemoWrite(j) ==
    LET f == DemoFiles(j)
        fs1 == [fs EXCEPT !.files = @ \cup {resolve(f[1].path, fs).parts,
                                            resolve(f[2].path, fs).parts}]
        j1 == register_artifact(jobs[j], f[1].label, f[1].path, Uid(j, 1), fs1)
        j2 == register_artifact(j1, f[2].label, f[2].path, Uid(j, 2), fs1)
    IN  /\ pc[j] = "demo_write"
        /\ fs' = fs1
        /\ SetJob(j, j2)
        /\ GoTo(j, "demo_finish")
        /\ WorkerVarsUnchanged

\* a write_text raises OSError after n files were written
DemoWriteFails(j) ==
    /\ pc[j] = "demo_write"
    /\ \E n \in 0..1 :
         fs' = [fs EXCEPT !.files =
                  @ \cup {resolve(DemoFiles(j)[i].path, fs).parts : i \in 1..n}]
    /\ Ends(j, "crashed")
    /\ UNCHANGED jobs
    /\ WorkerVarsUnchanged

\* lines 380-384
DemoFinish(j) ==
    /\ pc[j] = "demo_finish"
    /\ SetJob(j, MarkFinished(
            append_log(jobs[j], <<"[demo] Completed successfully.">>),
            now, 0, "succeeded", jobs[j].error))
    /\ Ends(j, "done")
    /\ UNCHANGED fs
    /\ WorkerVarsUnchanged


\* run_job -> run_live_job, lines 388-394
LiveStart(j) ==
    /\ pc[j] = "run_job"
    /\ MODE = "live"
    /\ SetJob(j, MarkRunning(jobs[j], now))
    /\ GoTo(j, "live_repo")
    /\ UNCHANGED fs
    /\ WorkerVarsUnchanged

RepoMissingText == <<"tool repo not found: ">>
\* line 410
CommandLine(tool) == <<"$ python3 main.py  (cwd=", tool, ")">>
ExitText(rc) == <<"tool exited with code ", ToString(rc)>>

\* a runner that does not look whether the repository is there
LiveRepo_unchecked(j) ==
    /\ pc[j] = "live_repo"
    /\ IF build_stdin(jobs[j].tool, args[j]).raised
       THEN /\ Ends(j, "crashed")
            /\ UNCHANGED jobs
       ELSE /\ SetJob(j, append_log(jobs[j], CommandLine(jobs[j].tool)))
            /\ GoTo(j, "live_spawn")
    /\ UNCHANGED fs
    /\ WorkerVarsUnchanged

\* lines 396-410: the repo check; then the stdin script and the command line
LiveRepo(j) ==
    /\ pc[j] = "live_repo"
    /\ IF ~exists(ToolRepo(jobs[j].tool), fs)
       THEN /\ SetJob(j, MarkFinished(jobs[j], now, -1, "failed",
                          Some(RepoMissingText \o <<jobs[j].tool>>)))
            /\ GoTo(j, "live_log_missing")
       ELSE IF build_stdin(jobs[j].tool, args[j]).raised
       THEN /\ Ends(j, "crashed")
            /\ UNCHANGED jobs
       ELSE /\ SetJob(j, append_log(jobs[j], CommandLine(jobs[j].tool)))
            /\ GoTo(j, "live_spawn")
    /\ UNCHANGED fs
    /\ WorkerVarsUnchanged

\* lines 402-403
LiveLogMissing(j) ==
    /\ pc[j] = "live_log_missing"
    /\ SetJob(j, append_log(jobs[j],
                 <<"[error] ">> \o RepoMissingText \o <<jobs[j].tool>>))
    /\ Ends(j, "done")
    /\ UNCHANGED fs
    /\ WorkerVarsUnchanged

\* lines 411-426: the child is started, stdin written and closed
LiveSpawn(j) ==
    /\ pc[j] = "live_spawn"
    /\ Goes(j, "live_stream", exc[j], [state |-> "running", rc |-> 0], calls[j])
    /\ UNCHANGED <<jobs, fs>>
    /\ WorkerVarsUnchanged

\* Popen raises OSError (no child), or the write to stdin raises
\* BrokenPipeError (the child is there and has closed its stdin)
LiveSpawnFails(j) ==
    /\ pc[j] = "live_spawn"
    /\ \/ Goes(j, "live_except", <<"[Errno 2] No such file or directory">>,
               child[j], calls[j])
       \/ Goes(j, "live_except", <<"[Errno 32] Broken pipe">>,
               [state |-> "running", rc |-> 0], calls[j])
    /\ UNCHANGED <<jobs, fs>>
    /\ WorkerVarsUnchanged

\* lines 428-430: the next line of the child's output
LiveRead(j) ==
    /\ pc[j] = "live_stream"
    /\ child[j].state = "running"
    /\ calls[j] < Len(script)
    /\ LET line == script[calls[j] + 1]
       IN  SetJob(j, maybe_register_artifact_from_line(
                         append_log(jobs[j], line), line,
                         Uid(j, Len(jobs[j].artifacts) + 1), fs))
    /\ Goes(j, "live_stream", exc[j], child[j], calls[j] + 1)
    /\ UNCHANGED fs
    /\ WorkerVarsUnchanged

\* line 428 raises (the output is not valid UTF-8)
LiveReadFails(j) ==
    /\ pc[j] = "live_stream"
    /\ child[j].state = "running"
    /\ Goes(j, "live_except", <<"'utf-8' codec can't decode byte">>, child[j], calls[j])
    /\ UNCHANGED <<jobs, fs>>
    /\ WorkerVarsUnchanged

\* the for loop of line 428 ends: the output stream is at end of file
LiveEOF(j) ==
    /\ pc[j] = "live_stream"
    /\ child[j].state \in {"closed", "exited"}
    /\ GoTo(j, "live_wait")
    /\ UNCHANGED <<jobs, fs>>
    /\ WorkerVarsUnchanged

\* lines 432-438: proc.wait returns the exit code
LiveWaitReturns(j) ==
    LET rc == child[j].rc
    IN  /\ pc[j] = "live_wait"
        /\ child[j].state = "exited"
        /\ SetJob(j, MarkFinished(jobs[j], now, rc,
                        IF rc = 0 THEN "succeeded" ELSE "failed",
                        IF rc # 0 THEN Some(ExitText(rc)) ELSE jobs[j].error))
        /\ Ends(j, "done")
        /\ UNCHANGED fs
        /\ WorkerVarsUnchanged

\* line 432: proc.wait(timeout=7200) raises TimeoutExpired; the wait starts
\* when the output stream has ended
LiveWaitTimeout(j) ==
    /\ pc[j] = "live_wait"
    /\ child[j].state = "closed"
    /\ Goes(j, "live_except", <<"Command timed out after 7200 seconds">>,
            child[j], calls[j])
    /\ UNCHANGED <<jobs, fs>>
    /\ WorkerVarsUnchanged

\* lines 439-446
LiveExcept(j) ==
    /\ pc[j] = "live_except"
    /\ SetJob(j, MarkFinished(jobs[j], now, -1, "failed", Some(exc[j])))
    /\ Goes(j, "live_log_error", exc[j],
            IF Alive(child[j]) THEN [child[j] EXCEPT !.state = "killed"] ELSE child[j],
            calls[j])
    /\ UNCHANGED fs
    /\ WorkerVarsUnchanged

\* line 447
LiveLogError(j) ==
    /\ pc[j] = "live_log_error"
    /\ SetJob(j, append_log(jobs[j], <<"[error] ">> \o exc[j]))
    /\ Ends(j, "done")
    /\ UNCHANGED fs
    /\ WorkerVarsUnchanged

(***************************************************************************)
(* The child process (the external tool): it may close its output and go   *)
(* on running, and it may exit; nothing makes it do either.  Lines not     *)
(* read by then are lost.                                                  *)
(***************************************************************************)
ExitCodes == {0, 2}

ChildClosesOutput(j) ==
    /\ child[j].state = "running"
    /\ child' = [child EXCEPT ![j].state = "closed"]
    /\ UNCHANGED <<jobs, args, pc, exc, calls, fs>>
    /\ WorkerVarsUnchanged

ChildExits(j) ==
    /\ Alive(child[j])
    /\ \E rc \in ExitCodes :
         child' = [child EXCEPT ![j] = [state |-> "exited", rc |-> rc]]
    /\ UNCHANGED <<jobs, args, pc, exc, calls, fs>>
    /\ WorkerVarsUnchanged

\* the clock moves on by d seconds
Tick(d) ==
    /\ now + d <= MaxTime
    /\ now' = now + d
    /\ UNCHANGED <<MODE, API_KEY, JOBS, jobs, args, pc, exc, child, calls,
                   script, h, RATE_BUCKETS, rate_log, fs,
                   JOBS_LOCK, RATE_LOCK, todo>>


(***************************************************************************)
(* The HTTP handler.  main (line 720) serves with HTTPServer, which        *)
(* handles one request at a time on one thread: h is that thread.  A run   *)
(* request is cut where the handler takes JOBS_LOCK anew, so that the      *)
(* workers run in between.                                                 *)
(***************************************************************************)
HandlerVarsUnchanged ==
    UNCHANGED <<MODE, API_KEY, now, exc, child, calls, script, rate_log, fs,
                   JOBS_LOCK, RATE_LOCK, todo>>

\* the run requests of Spec: from a foreign origin, with a wrong key, to
\* another path, and well-formed; the tool and the payload are read at the
\* gate
PostRequests ==
    {Req("POST", <<"https://evil.example">>, API_KEY, "10.0.0.1", "run", "",
         NoPayload, 0, <<>>),
     Req("POST", <<>>, <<"guess">>, "10.0.0.1", "run", "", NoPayload, 0, <<>>),
     Req("POST", <<>>, API_KEY, "10.0.0.1", "run", "", NoPayload, 0, <<>>),
     Req("POST", <<>>, API_KEY, "10.0.0.1", "other", "", NoPayload, 0, <<>>)}

\* their payloads: complete for one tool only, blank, without the field
RunPayloads == {
    [competitor_name |-> Acme],
    [competitor_name |-> <<" ", "\n">>, your_protocol_name |-> <<"U", "n", "i">>],
    [your_protocol_name |-> <<>>] }

\* do_POST that checks the key before it takes the rate slot
PostBegin_key_first(req) ==
    /\ h.pc = "idle"
    /\ LET slot == take_rate_slot(RATE_BUCKETS, req.ip, "POST", now)
           refused == MODE = "live" /\ ~_authorized(MODE, API_KEY, req.key)
       IN  /\ JOBS' = cleanup_jobs(JOBS, jobs, now)
           /\ IF ~_origin_allowed(req.origin)
              THEN /\ h' = Sent(req, Error(403, "origin not allowed"))
                   /\ UNCHANGED RATE_BUCKETS
              ELSE IF refused
              THEN /\ h' = Sent(req, Error(403, "missing or invalid api key"))
                   /\ UNCHANGED RATE_BUCKETS
              ELSE /\ RATE_BUCKETS' = slot.buckets
                   /\ h' = IF ~slot.ok
                           THEN Sent(req, Error(429, "rate limit exceeded"))
                           ELSE IF req.kind = "run"
                           THEN [pc |-> "gate", req |-> req, resp |-> NoResp]
                           ELSE Sent(req, Error(404, "not found"))
    /\ UNCHANGED <<jobs, args, pc>>
    /\ HandlerVarsUnchanged

\* do_POST that takes the rate slot before it checks the origin
PostBegin_rate_first(req) ==
    /\ h.pc = "idle"
    /\ LET slot == take_rate_slot(RATE_BUCKETS, req.ip, "POST", now)
       IN  /\ JOBS' = cleanup_jobs(JOBS, jobs, now)
           /\ RATE_BUCKETS' = slot.buckets
           /\ h' = IF ~slot.ok
                   THEN Sent(req, Error(429, "rate limit exceeded"))
                   ELSE IF ~_origin_allowed(req.origin)
                   THEN Sent(req, Error(403, "origin not allowed"))
                   ELSE IF req.kind = "run"
                   THEN [pc |-> "gate", req |-> req, resp |-> NoResp]
                   ELSE Sent(req, Error(404, "not found"))
    /\ UNCHANGED <<jobs, args, pc>>
    /\ HandlerVarsUnchanged

\* do_POST, lines 555-566 and 593: sweep, origin, rate slot, key, route
PostBegin(req) ==
    /\ h.pc = "idle"
    /\ LET slot == take_rate_slot(RATE_BUCKETS, req.ip, "POST", now)
       IN  /\ JOBS' = cleanup_jobs(JOBS, jobs, now)
           /\ IF ~_origin_allowed(req.origin)
              THEN /\ h' = Sent(req, Error(403, "origin not allowed"))
                   /\ UNCHANGED RATE_BUCKETS
              ELSE /\ RATE_BUCKETS' = slot.buckets
                   /\ h' = IF ~slot.ok
                           THEN Sent(req, Error(429, "rate limit exceeded"))
                           ELSE IF MODE = "live" /\ ~_authorized(MODE, API_KEY, req.key)
                           THEN Sent(req, Error(403, "missing or invalid api key"))
                           ELSE IF req.kind = "run"
                           THEN [pc |-> "gate", req |-> req, resp |-> NoResp]
                           ELSE Sent(req, Error(404, "not found"))
    /\ UNCHANGED <<jobs, args, pc>>
    /\ HandlerVarsUnchanged

\* lines 567-583: the admission gate, the tool name (the last segment of
\* the path), the payload (read from the socket at line 579).  A request
\* that would create job MaxJobs + 1 is not made.
PostGate(t, p) ==
    /\ h.pc = "gate"
    /\ LET req == [h.req EXCEPT !.tool = t, !.payload = p]
       IN  h' = IF gate_full(JOBS, jobs)
                THEN Sent(req, Error(429, "too many jobs running, please retry shortly"))
                ELSE IF t \notin TOOL_DEFS
                THEN Sent(req, Error(400, "unsupported tool"))
                ELSE IF build_stdin(t, p).raised
                THEN Sent(req, Error(400, build_stdin(t, p).value[1]))
                ELSE IF Len(jobs) < MaxJobs
                THEN [pc |-> "insert", req |-> req, resp |-> NoResp]
                ELSE h
    /\ UNCHANGED <<JOBS, jobs, args, pc, RATE_BUCKETS>>
    /\ HandlerVarsUnchanged

\* lines 585-591: the Job is stored and its worker started
PostInsert ==
    LET id == Len(jobs) + 1
    IN  /\ h.pc = "insert"
        /\ jobs' = Append(jobs, NewJob(id, h.req.tool))
        /\ JOBS' = JOBS \cup {id}
        /\ args' = Append(args, h.req.payload)
        /\ pc' = Append(pc, "run_job")
        /\ exc' = Append(exc, <<>>)
        /\ child' = Append(child, NoChild)
        /\ calls' = Append(calls, 0)
        /\ h' = Sent(h.req, Resp(202, "queued", Some(id), None, None))
        /\ UNCHANGED <<MODE, API_KEY, now, script, RATE_BUCKETS, rate_log, fs,
                   JOBS_LOCK, RATE_LOCK, todo>>

\* a download that looks the artifact id up in every stored job
GetArtifact_any_job(store, req) ==
    LET owners == {id \in store : \E i \in 1..Len(jobs[id].artifacts) :
                                    jobs[id].artifacts[i].id = req.artifact_id}
    IN  IF req.job_id \notin store \/ owners = {} THEN Error(404, "not found")
        ELSE LET job == jobs[CHOOSE id \in owners : \A k \in owners : id <= k]
                 artifact == job.artifacts[CHOOSE i \in 1..Len(job.artifacts) :
                                             job.artifacts[i].id = req.artifact_id]
                 file_path == resolve(artifact.path, fs)
             IN  IF ~exists(file_path, fs) \/ ~is_file(file_path, fs)
                 THEN Error(404, "not found")
                 ELSE IF ~is_path_safe_for_job(job.id, job.tool, file_path, fs)
                 THEN Error(403, "artifact path denied")
                 ELSE Resp(200, "file", Some(req.job_id), None, Some(file_path))

\* do_GET, lines 624-658: the download of an artifact of a stored job
GetArtifact(store, req) ==
    IF req.job_id \notin store THEN Error(404, "not found")
    ELSE LET job == jobs[req.job_id]
             hits == {i \in 1..Len(job.artifacts) :
                        job.artifacts[i].id = req.artifact_id}
         IN  IF hits = {} THEN Error(404, "not found")
             ELSE LET artifact ==
                          job.artifacts[CHOOSE i \in hits : \A k \in hits : i <= k]
                      file_path == resolve(artifact.path, fs)
                  IN  IF ~exists(file_path, fs) \/ ~is_file(file_path, fs)
                      THEN Error(404, "not found")
                      ELSE IF ~is_path_safe_for_job(job.id, job.tool, file_path, fs)
                      THEN Error(403, "artifact path denied")
                      ELSE Resp(200, "file", Some(job.id), None, Some(file_path))

\* do_GET, lines 596-663
do_GET(req) ==
    /\ h.pc = "idle"
    /\ LET slot == take_rate_slot(RATE_BUCKETS, req.ip, "GET", now)
           store == cleanup_jobs(JOBS, jobs, now)
       IN  /\ JOBS' = store
           /\ IF ~_origin_allowed(req.origin)
              THEN /\ h' = Sent(req, Error(403, "origin not allowed"))
                   /\ UNCHANGED RATE_BUCKETS
              ELSE /\ RATE_BUCKETS' = slot.buckets
                   /\ h' = IF ~slot.ok
                           THEN Sent(req, Error(429, "rate limit exceeded"))
                           ELSE IF req.kind = "health"
                           THEN Sent(req, Resp(200, "health", None, None, None))
                           ELSE IF /\ req.kind \in {"job", "artifact"}
                                   /\ MODE = "live"
                                   /\ ~_authorized(MODE, API_KEY, req.key)
                           THEN Sent(req, Error(403, "missing or invalid api key"))
                           ELSE IF req.kind = "job"
                           THEN Sent(req, IF req.job_id \notin store
                                          THEN Error(404, "not found")
                                          ELSE Resp(200, "job", Some(req.job_id),
                                                    Some(to_json(jobs[req.job_id])),
                                                    None))
                           ELSE IF req.kind = "artifact"
                           THEN Sent(req, GetArtifact(store, req))
                           ELSE Sent(req, Resp(200, "static", None, None, None))
    /\ UNCHANGED <<jobs, args, pc>>
    /\ HandlerVarsUnchanged

\* the response is written and the handler returns
Finish ==
    /\ h.pc = "sent"
    /\ h' = Idle
    /\ UNCHANGED <<JOBS, jobs, args, pc, RATE_BUCKETS>>
    /\ HandlerVarsUnchanged

(***************************************************************************)
(* The server: run requests, the workers they start, the child processes   *)
(* and the clock.  No I/O fault is injected here (see SpecWorker).         *)
(***************************************************************************)
Next ==
    \/ \E req \in PostRequests : PostBegin(req)
    \/ \E t \in ToolNames, p \in RunPayloads : PostGate(t, p)
    \/ PostInsert
    \/ Finish
    \/ \E j \in DOMAIN jobs : DemoStart(j)
    \/ \E j \in DOMAIN jobs : DemoMkdir(j)
    \/ \E j \in DOMAIN jobs : DemoWrite(j)
    \/ \E j \in DOMAIN jobs : DemoFinish(j)
    \/ \E j \in DOMAIN jobs : LiveStart(j)
    \/ \E j \in DOMAIN jobs : LiveRepo(j)
    \/ \E j \in DOMAIN jobs : LiveLogMissing(j)
    \/ \E j \in DOMAIN jobs : LiveSpawn(j)
    \/ \E j \in DOMAIN jobs : LiveRead(j)
    \/ \E j \in DOMAIN jobs : LiveEOF(j)
    \/ \E j \in DOMAIN jobs : LiveWaitReturns(j)
    \/ \E j \in DOMAIN jobs : LiveWaitTimeout(j)
    \/ \E j \in DOMAIN jobs : LiveExcept(j)
    \/ \E j \in DOMAIN jobs : LiveLogError(j)
    \/ \E j \in DOMAIN jobs : ChildClosesOutput(j)
    \/ \E j \in DOMAIN jobs : ChildExits(j)
    \/ Tick(ClockStep)

Spec == Init /\ [][Next]_vars

(***************************************************************************)
(* One worker on its own: the server right after a run request was         *)
(* accepted (line 590), for every tool and every payload that passes       *)
(* build_stdin, with the I/O faults of the worker's calls and every        *)
(* output the tool may print.                                              *)
(***************************************************************************)
Accepted ==
    {tp \in TOOL_DEFS \X Payloads : ~build_stdin(tp[1], tp[2]).raised}

\* lines of a tool's output: artifact markers with a path inside the
\* repository, paths that leave it (by "..", absolute, through a symbolic
\* link), a line without marker, an empty line
InsideLine ==
    <<"Word doc", ":", "..", "/", "competitive-deep-dive", "/", "report.md", "\n">>
TraversalLine ==
    <<"Research data saved", " ", ":", " ", "..", "/", "..", "/", "etc", "/",
      "passwd", "\n">>
AbsoluteLine == <<"Markdown", ":", "/", "etc", "/", "passwd", "\n">>
LinkLine == <<"Markdown", ":", "link.md", "\n">>
Lines == {ReportLine, InsideLine, TraversalLine, AbsoluteLine, LinkLine,
          <<"working", "\n">>, <<"\n">>}
Scripts == UNION {[1..n -> Lines] : n \in 0..MaxLines}

\* the server with job 1 accepted and its worker about to start
JobAccepted(scripts) ==
    /\ MODE \in Modes
    /\ API_KEY = (IF MODE = "live" THEN <<"s3cret">> ELSE <<>>)
    /\ fs \in (IF MODE = "live" THEN {FsWithRepos, FsBase} ELSE {FsBase})
    /\ script \in (IF fs = FsWithRepos THEN scripts ELSE {<<>>})
    /\ now = 0
    /\ JOBS = {1}
    /\ \E tp \in Accepted :
         /\ jobs = <<NewJob(1, tp[1])>>
         /\ args = <<tp[2]>>
    /\ pc = <<"run_job">>
    /\ exc = << <<>> >>
    /\ child = <<NoChild>>
    /\ calls = <<0>>
    /\ h = Idle
    /\ RATE_BUCKETS = (<<"10.0.0.1", "POST">> :> <<0>>)
    /\ rate_log = <<>>
    /\ JOBS_LOCK = {}
    /\ RATE_LOCK = {}
    /\ todo = NoBlock

InitWorker == JobAccepted(Scripts)

NextWorker ==
    \/ \E j \in DOMAIN jobs : DemoStart(j)
    \/ \E j \in DOMAIN jobs : DemoMkdir(j)
    \/ \E j \in DOMAIN jobs : DemoMkdirFails(j)
    \/ \E j \in DOMAIN jobs : DemoWrite(j)
    \/ \E j \in DOMAIN jobs : DemoWriteFails(j)
    \/ \E j \in DOMAIN jobs : DemoFinish(j)
    \/ \E j \in DOMAIN jobs : LiveStart(j)
    \/ \E j \in DOMAIN jobs : LiveRepo(j)
    \/ \E j \in DOMAIN jobs : LiveLogMissing(j)
    \/ \E j \in DOMAIN jobs : LiveSpawn(j)
    \/ \E j \in DOMAIN jobs : LiveSpawnFails(j)
    \/ \E j \in DOMAIN jobs : LiveRead(j)
    \/ \E j \in DOMAIN jobs : LiveReadFails(j)
    \/ \E j \in DOMAIN jobs : LiveEOF(j)
    \/ \E j \in DOMAIN jobs : LiveWaitReturns(j)
    \/ \E j \in DOMAIN jobs : LiveWaitTimeout(j)
    \/ \E j \in DOMAIN jobs : LiveExcept(j)
    \/ \E j \in DOMAIN jobs : LiveLogError(j)
    \/ \E j \in DOMAIN jobs : ChildClosesOutput(j)
    \/ \E j \in DOMAIN jobs : ChildExits(j)
    \/ Tick(1)

SpecWorker == InitWorker /\ [][NextWorker]_vars

(***************************************************************************)
(* A live worker under fair scheduling, with a tool that prints nothing:   *)
(* a worker thread that can take a step of its code takes it, and the      *)
(* ceiling of proc.wait elapses when the wait lasts.  Nothing is assumed   *)
(* of the child process, of the faults, of the clock.                      *)
(***************************************************************************)
InitFair ==
    /\ JobAccepted({<<>>})
    /\ MODE = "live"

NextFair ==
    \/ \E j \in DOMAIN jobs : LiveStart(j)
    \/ \E j \in DOMAIN jobs : LiveRepo(j)
    \/ \E j \in DOMAIN jobs : LiveLogMissing(j)
    \/ \E j \in DOMAIN jobs : LiveSpawn(j)
    \/ \E j \in DOMAIN jobs : LiveSpawnFails(j)
    \/ \E j \in DOMAIN jobs : LiveEOF(j)
    \/ \E j \in DOMAIN jobs : LiveWaitReturns(j)
    \/ \E j \in DOMAIN jobs : LiveWaitTimeout(j)
    \/ \E j \in DOMAIN jobs : LiveExcept(j)
    \/ \E j \in DOMAIN jobs : LiveLogError(j)
    \/ \E j \in DOMAIN jobs : ChildClosesOutput(j)
    \/ \E j \in DOMAIN jobs : ChildExits(j)
    \/ Tick(1)

WorkerRuns(j) ==
    \/ LiveStart(j) \/ LiveRepo(j) \/ LiveLogMissing(j) \/ LiveSpawn(j)
    \/ LiveEOF(j) \/ LiveWaitReturns(j) \/ LiveWaitTimeout(j)
    \/ LiveExcept(j) \/ LiveLogError(j)

SpecFair == InitFair /\ [][NextFair]_vars /\ WF_vars(WorkerRuns(1))

(***************************************************************************)
(* A long-running tool: one live job whose child prints MaxLogCalls        *)
(* numbered lines, each handed to append_log at line 429.                  *)
(***************************************************************************)
Numbered(i) == <<ToString(i), "\n">>

InitLog ==
    /\ JobAccepted({[i \in 1..MaxLogCalls |-> Numbered(i)]})
    /\ MODE = "live"
    /\ fs = FsWithRepos
    /\ jobs[1].tool = "competitive-deep-dive"
    /\ args[1] = [competitor_name |-> Acme]

NextLog ==
    \/ \E j \in DOMAIN jobs : LiveStart(j)
    \/ \E j \in DOMAIN jobs : LiveRepo(j)
    \/ \E j \in DOMAIN jobs : LiveSpawn(j)
    \/ \E j \in DOMAIN jobs : LiveRead(j)
    \/ \E j \in DOMAIN jobs : LiveEOF(j)
    \/ \E j \in DOMAIN jobs : LiveWaitReturns(j)
    \/ \E j \in DOMAIN jobs : ChildExits(j)

SpecLog == InitLog /\ [][NextLog]_vars

(***************************************************************************)
(* The rate limiter on its own: calls of take_rate_slot as do_POST (line   *)
(* 558) and do_GET (line 599) make them, for three keys, on a clock that   *)
(* moves second by second.  rate_log keeps each call and its result.       *)
(***************************************************************************)
RateKeys == {<<"10.0.0.1", "POST">>, <<"10.0.0.1", "GET">>, <<"10.0.0.2", "POST">>}

RateCall(ip, method) ==
    /\ Len(rate_log) < MaxRateCalls
    /\ LET slot == take_rate_slot(RATE_BUCKETS, ip, method, now)
       IN  /\ RATE_BUCKETS' = slot.buckets
           /\ rate_log' = Append(rate_log,
                             [key |-> <<ip, method>>, t |-> now, ok |-> slot.ok])
    /\ UNCHANGED <<MODE, API_KEY, now, JOBS, jobs, args, pc, exc, child, calls,
                   script, h, fs,
                   JOBS_LOCK, RATE_LOCK, todo>>

InitRate ==
    /\ Init
    /\ MODE = "demo"

NextRate ==
    \/ \E key \in RateKeys : RateCall(key[1], key[2])
    \/ Tick(1)

SpecRate == InitRate /\ [][NextRate]_vars

(***************************************************************************)
(* Artifacts: one job whose tool prints one line, the downloads of its     *)
(* artifacts, and a file tree that changes under the server: a registered  *)
(* file is replaced by a symbolic link that leads elsewhere, or deleted.   *)
(***************************************************************************)
EnvReplacesByLink(j, i) ==
    LET p == jobs[j].artifacts[i].path.parts
    IN  /\ p \in fs.files
        /\ fs' = [files |-> fs.files \ {p}, dirs |-> fs.dirs,
                  links |-> (p :> AbsPath(SecretParts)) @@ fs.links]
        /\ UNCHANGED <<MODE, API_KEY, now, JOBS, jobs, args, pc, exc, child,
                       calls, script, h, RATE_BUCKETS, rate_log,
                   JOBS_LOCK, RATE_LOCK, todo>>

EnvDeletes(j, i) ==
    LET p == jobs[j].artifacts[i].path.parts
    IN  /\ p \in fs.files
        /\ fs' = [fs EXCEPT !.files = @ \ {p}]
        /\ UNCHANGED <<MODE, API_KEY, now, JOBS, jobs, args, pc, exc, child,
                       calls, script, h, RATE_BUCKETS, rate_log,
                   JOBS_LOCK, RATE_LOCK, todo>>

\* downloads asked of job 1: its artifact ids and one it does not have
ArtifactRequests ==
    {Req("GET", <<>>, API_KEY, "10.0.0.1", "artifact", "", NoPayload, 1, aid) :
        aid \in {Uid(1, 1), Uid(1, 2), <<"0000">>}}

InitPath == JobAccepted({<<l>> : l \in Lines})

NextPath ==
    \/ \E req \in ArtifactRequests : do_GET(req)
    \/ Finish
    \/ \E j \in DOMAIN jobs : DemoStart(j)
    \/ \E j \in DOMAIN jobs : DemoMkdir(j)
    \/ \E j \in DOMAIN jobs : DemoWrite(j)
    \/ \E j \in DOMAIN jobs : DemoFinish(j)
    \/ \E j \in DOMAIN jobs : LiveStart(j)
    \/ \E j \in DOMAIN jobs : LiveRepo(j)
    \/ \E j \in DOMAIN jobs : LiveLogMissing(j)
    \/ \E j \in DOMAIN jobs : LiveSpawn(j)
    \/ \E j \in DOMAIN jobs : LiveRead(j)
    \/ \E j \in DOMAIN jobs : LiveEOF(j)
    \/ \E j \in DOMAIN jobs : LiveWaitReturns(j)
    \/ \E j \in DOMAIN jobs : ChildExits(j)
    \/ \E j \in DOMAIN jobs : \E i \in DOMAIN jobs[j].artifacts :
         EnvReplacesByLink(j, i)
    \/ \E j \in DOMAIN jobs : \E i \in DOMAIN jobs[j].artifacts :
         EnvDeletes(j, i)
    \/ Tick(ClockStep)

SpecPath == InitPath /\ [][NextPath]_vars

(***************************************************************************)
(* The threads statement by statement: one accepted job, its worker, and   *)
(* the handler that answers polls of it.  A with JOBS_LOCK block of the    *)
(* worker is entered when the lock is free, runs one assignment at a       *)
(* time, and releases the lock at its end; every other stretch of the      *)
(* worker runs without a lock.  The handler takes JOBS_LOCK in             *)
(* cleanup_jobs (line 165) and for JOBS.get (line 616), RATE_LOCK in       *)
(* take_rate_slot (line 466), and calls to_json (line 621) with no lock.   *)
(***************************************************************************)
ThreadVarsUnchanged ==
    UNCHANGED <<MODE, API_KEY, now, JOBS, script, h, RATE_BUCKETS, rate_log,
                RATE_LOCK>>

Write(field, value) == [field |-> field, value |-> value]

\* with JOBS_LOCK: worker j takes the free lock; writes are the assignments
\* of the block in their order, next is where the worker goes after it
Enters(j, writes, next) ==
    /\ JOBS_LOCK = {}
    /\ JOBS_LOCK' = {j}
    /\ todo' = [writes |-> writes, next |-> next]
    /\ pc' = [pc EXCEPT ![j] = "locked"]
    /\ UNCHANGED <<jobs, args, exc, child, calls, fs>>
    /\ ThreadVarsUnchanged

\* the next assignment of the block; utc_now_iso() is read as it runs
Assigns(j) ==
    /\ pc[j] = "locked"
    /\ todo.writes # <<>>
    /\ LET w == Head(todo.writes)
       IN  jobs' = [jobs EXCEPT ![j][w.field] =
                      IF w.field \in {"started_at", "finished_at"}
                      THEN Some(now) ELSE w.value]
    /\ todo' = [todo EXCEPT !.writes = Tail(@)]
    /\ UNCHANGED <<pc, args, exc, child, calls, fs, JOBS_LOCK>>
    /\ ThreadVarsUnchanged

\* the block ends and the lock is released
Leaves(j) ==
    /\ pc[j] = "locked"
    /\ todo.writes = <<>>
    /\ JOBS_LOCK' = {}
    /\ todo' = NoBlock
    /\ IF todo.next = "done" THEN Ends(j, "done") ELSE GoTo(j, todo.next)
    /\ UNCHANGED <<jobs, fs>>
    /\ ThreadVarsUnchanged

\* a worker that marks its job running and leaves started_at unset
Begins_no_stamp(j) ==
    /\ pc[j] = "run_job"
    /\ Enters(j, <<Write("status", "running")>>,
              IF MODE = "live" THEN "live_repo" ELSE "demo_mkdir")

\* lines 291-293 and 391-394
Begins(j) ==
    /\ pc[j] = "run_job"
    /\ Enters(j, <<Write("status", "running"), Write("started_at", None)>>,
              IF MODE = "live" THEN "live_repo" ELSE "demo_mkdir")

\* line 380
DemoCompleted(j) ==
    /\ pc[j] = "demo_finish"
    /\ SetJob(j, append_log(jobs[j], <<"[demo] Completed successfully.">>))
    /\ GoTo(j, "demo_lock")
    /\ UNCHANGED fs
    /\ WorkerVarsUnchanged

\* lines 381-384
DemoEnds(j) ==
    /\ pc[j] = "demo_lock"
    /\ Enters(j, <<Write("return_code", Some(0)), Write("finished_at", None),
                   Write("status", "succeeded")>>, "done")

\* lines 396 and 405-410
LiveRepoCheck(j) ==
    /\ pc[j] = "live_repo"
    /\ IF ~exists(ToolRepo(jobs[j].tool), fs)
       THEN /\ GoTo(j, "missing_lock")
            /\ UNCHANGED jobs
       ELSE IF build_stdin(jobs[j].tool, args[j]).raised
       THEN /\ Ends(j, "crashed")
            /\ UNCHANGED jobs
       ELSE /\ SetJob(j, append_log(jobs[j], CommandLine(jobs[j].tool)))
            /\ GoTo(j, "live_spawn")
    /\ UNCHANGED fs
    /\ WorkerVarsUnchanged

\* lines 397-401
LiveMissing(j) ==
    /\ pc[j] = "missing_lock"
    /\ Enters(j, <<Write("return_code", Some(-1)), Write("finished_at", None),
                   Write("status", "failed"),
                   Write("error", Some(RepoMissingText \o <<jobs[j].tool>>))>>,
              "live_log_missing")

\* a worker that marks its job succeeded whatever the exit code
LiveWaited_succeeded(j) ==
    LET rc == child[j].rc
    IN  /\ pc[j] = "live_wait"
        /\ child[j].state = "exited"
        /\ Enters(j, <<Write("return_code", Some(rc)), Write("finished_at", None),
                       Write("status", "succeeded")>>, "done")

\* lines 432-437: proc.wait has returned the exit code
LiveWaited(j) ==
    LET rc == child[j].rc
    IN  /\ pc[j] = "live_wait"
        /\ child[j].state = "exited"
        /\ Enters(j, <<Write("return_code", Some(rc)), Write("finished_at", None),
                       Write("status", IF rc = 0 THEN "succeeded" ELSE "failed")>>
                     \o (IF rc # 0 THEN <<Write("error", Some(ExitText(rc)))>>
                         ELSE <<>>),
                  "done")

\* lines 439-441
LiveKills(j) ==
    /\ pc[j] = "live_except"
    /\ Goes(j, "except_lock", exc[j],
            IF Alive(child[j]) THEN [child[j] EXCEPT !.state = "killed"] ELSE child[j],
            calls[j])
    /\ UNCHANGED <<jobs, fs>>
    /\ WorkerVarsUnchanged

\* lines 442-446
LiveFails(j) ==
    /\ pc[j] = "except_lock"
    /\ Enters(j, <<Write("return_code", Some(-1)), Write("finished_at", None),
                   Write("status", "failed"), Write("error", Some(exc[j]))>>,
              "live_log_error")

\* what a poll leaves alone
GetVarsUnchanged ==
    UNCHANGED <<MODE, API_KEY, now, jobs, args, pc, exc, child, calls, script,
                rate_log, fs, todo>>

At(label, req) == [pc |-> label, req |-> req, resp |-> NoResp]

\* do_GET, line 596 -> cleanup_jobs, line 165: the handler takes JOBS_LOCK
GetSweepLock(req) ==
    /\ h.pc = "idle"
    /\ JOBS_LOCK = {}
    /\ JOBS_LOCK' = {0}
    /\ h' = At("sweep", req)
    /\ UNCHANGED <<JOBS, RATE_BUCKETS, RATE_LOCK>>
    /\ GetVarsUnchanged

\* a sweep that goes on to the rate limiter with JOBS_LOCK still held
GetSweep_keeps_lock ==
    /\ h.pc = "sweep"
    /\ JOBS' = cleanup_jobs(JOBS, jobs, now)
    /\ h' = IF ~_origin_allowed(h.req.origin)
            THEN Sent(h.req, Error(403, "origin not allowed"))
            ELSE At("rate", h.req)
    /\ UNCHANGED <<RATE_BUCKETS, RATE_LOCK, JOBS_LOCK>>
    /\ GetVarsUnchanged

\* lines 166-177, then the origin check of lines 597-598
GetSweep ==
    /\ h.pc = "sweep"
    /\ JOBS' = cleanup_jobs(JOBS, jobs, now)
    /\ JOBS_LOCK' = {}
    /\ h' = IF ~_origin_allowed(h.req.origin)
            THEN Sent(h.req, Error(403, "origin not allowed"))
            ELSE At("rate", h.req)
    /\ UNCHANGED <<RATE_BUCKETS, RATE_LOCK>>
    /\ GetVarsUnchanged

\* line 599 -> take_rate_slot, line 466: the handler takes RATE_LOCK
GetRateLock ==
    /\ h.pc = "rate"
    /\ RATE_LOCK = {}
    /\ RATE_LOCK' = {0}
    /\ h' = At("rate_locked", h.req)
    /\ UNCHANGED <<JOBS, RATE_BUCKETS, JOBS_LOCK>>
    /\ GetVarsUnchanged

\* lines 467-474, then lines 600-612: the routes of a poll
GetRate ==
    /\ h.pc = "rate_locked"
    /\ LET slot == take_rate_slot(RATE_BUCKETS, h.req.ip, "GET", now)
       IN  /\ RATE_BUCKETS' = slot.buckets
           /\ h' = IF ~slot.ok
                   THEN Sent(h.req, Error(429, "rate limit exceeded"))
                   ELSE IF h.req.kind = "health"
                   THEN Sent(h.req, Resp(200, "health", None, None, None))
                   ELSE IF MODE = "live" /\ ~_authorized(MODE, API_KEY, h.req.key)
                   THEN Sent(h.req, Error(403, "missing or invalid api key"))
                   ELSE At("lookup", h.req)
    /\ RATE_LOCK' = {}
    /\ UNCHANGED <<JOBS, JOBS_LOCK>>
    /\ GetVarsUnchanged

\* line 616: the handler takes JOBS_LOCK
GetLookupLock ==
    /\ h.pc = "lookup"
    /\ JOBS_LOCK = {}
    /\ JOBS_LOCK' = {0}
    /\ h' = At("lookup_locked", h.req)
    /\ UNCHANGED <<JOBS, RATE_BUCKETS, RATE_LOCK>>
    /\ GetVarsUnchanged

\* lines 617-620: JOBS.get, and the lock is released
GetLookup ==
    /\ h.pc = "lookup_locked"
    /\ JOBS_LOCK' = {}
    /\ h' = IF h.req.job_id \notin JOBS
            THEN Sent(h.req, Error(404, "not found"))
            ELSE At("to_json", h.req)
    /\ UNCHANGED <<JOBS, RATE_BUCKETS, RATE_LOCK>>
    /\ GetVarsUnchanged

\* line 621: job.to_json() reads the Job with no lock held
GetToJson ==
    /\ h.pc = "to_json"
    /\ h' = Sent(h.req, Resp(200, "job", Some(h.req.job_id),
                             Some(to_json(jobs[h.req.job_id])), None))
    /\ UNCHANGED <<JOBS, RATE_BUCKETS, JOBS_LOCK, RATE_LOCK>>
    /\ GetVarsUnchanged

\* the polls of job 1, and the liveness probe
Polls ==
    {Req("GET", <<>>, API_KEY, "10.0.0.1", kind, "", NoPayload, 1, <<>>) :
        kind \in {"job", "health"}}

InitThreads ==
    /\ JobAccepted({<<>>, <<ReportLine>>})
    /\ jobs[1].tool = "competitive-deep-dive"
    /\ args[1] = [competitor_name |-> Acme]

NextThreads ==
    \/ \E req \in Polls : GetSweepLock(req)
    \/ GetSweep
    \/ GetRateLock
    \/ GetRate
    \/ GetLookupLock
    \/ GetLookup
    \/ GetToJson
    \/ Finish
    \/ \E j \in DOMAIN jobs : Begins(j)
    \/ \E j \in DOMAIN jobs : Assigns(j)
    \/ \E j \in DOMAIN jobs : Leaves(j)
    \/ \E j \in DOMAIN jobs : DemoMkdir(j)
    \/ \E j \in DOMAIN jobs : DemoWrite(j)
    \/ \E j \in DOMAIN jobs : DemoCompleted(j)
    \/ \E j \in DOMAIN jobs : DemoEnds(j)
    \/ \E j \in DOMAIN jobs : LiveRepoCheck(j)
    \/ \E j \in DOMAIN jobs : LiveMissing(j)
    \/ \E j \in DOMAIN jobs : LiveLogMissing(j)
    \/ \E j \in DOMAIN jobs : LiveSpawn(j)
    \/ \E j \in DOMAIN jobs : LiveSpawnFails(j)
    \/ \E j \in DOMAIN jobs : LiveRead(j)
    \/ \E j \in DOMAIN jobs : LiveEOF(j)
    \/ \E j \in DOMAIN jobs : LiveWaited(j)
    \/ \E j \in DOMAIN jobs : LiveWaitTimeout(j)
    \/ \E j \in DOMAIN jobs : LiveKills(j)
    \/ \E j \in DOMAIN jobs : LiveFails(j)
    \/ \E j \in DOMAIN jobs : LiveLogError(j)
    \/ \E j \in DOMAIN jobs : ChildClosesOutput(j)
    \/ \E j \in DOMAIN jobs : ChildExits(j)
    \/ Tick(ClockStep)

SpecThreads == InitThreads /\ [][NextThreads]_vars

(***************************************************************************)
(* The API in live mode: run requests, polls, downloads and the liveness   *)
(* probe, each without the key header, with a wrong key and with the key   *)
(* "s3cret", against a server with that key or with none configured.       *)
(***************************************************************************)
RequestKeys == {<<>>, <<"guess">>, <<"s3cret">>}

AuthRequests ==
    {Req("POST", <<>>, key, "10.0.0.1", "run", "", NoPayload, 0, <<>>) :
        key \in RequestKeys}
    \cup {Req("GET", <<>>, key, "10.0.0.1", kind, "", NoPayload, 1, Uid(1, 1)) :
            key \in RequestKeys, kind \in {"health", "job", "artifact"}}

InitAuth ==
    /\ Init
    /\ MODE = "live"
    /\ fs = FsWithRepos

NextAuth ==
    \/ \E req \in AuthRequests : req.method = "POST" /\ PostBegin(req)
    \/ \E req \in AuthRequests : req.method = "GET" /\ do_GET(req)
    \/ PostGate("competitive-deep-dive", [competitor_name |-> Acme])
    \/ PostInsert
    \/ Finish
    \/ \E j \in DOMAIN jobs : LiveStart(j)
    \/ \E j \in DOMAIN jobs : LiveRepo(j)
    \/ \E j \in DOMAIN jobs : LiveSpawn(j)
    \/ \E j \in DOMAIN jobs : LiveRead(j)
    \/ \E j \in DOMAIN jobs : LiveEOF(j)
    \/ \E j \in DOMAIN jobs : LiveWaitReturns(j)
    \/ \E j \in DOMAIN jobs : ChildExits(j)
    \/ Tick(ClockStep)

SpecAuth == InitAuth /\ [][NextAuth]_vars

(***************************************************************************)
(* The job store in demo mode: run requests, the demo workers they start,  *)
(* polls and downloads of jobs 1 and 2, from an allowed and from a foreign *)
(* origin, on a clock that moves second by second past the retention       *)
(* window.                                                                 *)
(***************************************************************************)
Foreign == <<"https://evil.example">>

StoreRequests ==
    {Req("POST", origin, <<>>, "10.0.0.1", "run", "", NoPayload, 0, <<>>) :
        origin \in {<<>>, Foreign}}
    \cup {Req("GET", <<>>, <<>>, "10.0.0.1", "job", "", NoPayload, id, <<>>) :
            id \in 1..MaxJobs}
    \cup {Req("GET", Foreign, <<>>, "10.0.0.1", "job", "", NoPayload, 1, <<>>)}
    \cup {Req("GET", <<"http://localhost:8450">>, <<>>, "10.0.0.1", "artifact", "",
              NoPayload, id, Uid(2, 1)) : id \in 1..MaxJobs}

InitStore ==
    /\ Init
    /\ MODE = "demo"

NextStore ==
    \/ \E req \in StoreRequests : req.method = "POST" /\ PostBegin(req)
    \/ \E req \in StoreRequests : req.method = "GET" /\ do_GET(req)
    \/ PostGate("competitive-deep-dive", [competitor_name |-> Acme])
    \/ PostInsert
    \/ Finish
    \/ \E j \in DOMAIN jobs : DemoStart(j)
    \/ \E j \in DOMAIN jobs : DemoMkdir(j)
    \/ \E j \in DOMAIN jobs : DemoWrite(j)
    \/ \E j \in DOMAIN jobs : DemoFinish(j)
    \/ Tick(1)

SpecStore == InitStore /\ [][NextStore]_vars

(***************************************************************************)
(* Properties                                                              *)
(***************************************************************************)
Nonterminal == {id \in DOMAIN jobs : jobs[id].status \in {"queued", "running"}}

\* a field the tool requires is absent, empty or blank
Blank(payload, k) ==
    k \notin DOMAIN payload \/ \A i \in DOMAIN payload[k] : payload[k][i] \in Whitespace
MissingField(tool, payload) ==
    \/ tool = "competitive-deep-dive" /\ Blank(payload, "competitor_name")
    \/ tool = "protocol-positioning"
        /\ (Blank(payload, "competitor_name") \/ Blank(payload, "your_protocol_name"))

\* C1: the status of an accepted job moves queued -> running ->
\* (succeeded | failed) only: no step skips running, goes back, or changes
\* a succeeded or failed status.
StatusStep(a, b) ==
    \/ a = b
    \/ a = "queued" /\ b = "running"
    \/ a = "running" /\ b \in Terminal
C1_StatusOrder ==
    [][\A j \in DOMAIN jobs : StatusStep(jobs[j].status, jobs'[j].status)]_vars

C1_Witness ==
    \E j \in DOMAIN jobs :
        /\ pc[j] = "done"
        /\ jobs[j].status = "failed"
        /\ jobs[j].started_at # None
        /\ Len(jobs[j].logs) > 1

\* C2: whatever fails inside a worker, the worker catches it and leaves its
\* job succeeded or failed: a worker thread that has ended has a job in a
\* terminal state.
C2_WorkerLeavesTerminal ==
    \A j \in DOMAIN jobs :
        pc[j] \in {"done", "crashed"} => jobs[j].status \in Terminal

\* C3: a live job that is running reaches a terminal state, also when its
\* child process keeps its output open and never exits: the ceiling of
\* proc.wait kills the child and the job becomes failed.
C3_LiveJobTerminates ==
    (jobs[1].status = "running") ~> (jobs[1].status \in Terminal)

\* a run request that names a tool and lacks a field the tool requires
InvalidRun(req) ==
    req.kind = "run" /\ req.tool \in TOOL_DEFS /\ MissingField(req.tool, req.payload)

\* the handler answers the run request it holds
Answers == h.pc \in {"gate", "insert"} /\ h'.pc = "sent"

\* C4 as stated: a run request whose payload lacks a required field is
\* answered 400 and creates no Job, in every server state, also when the
\* admission gate is full.
C4_InvalidPayloadGets400 ==
    [][(Answers /\ InvalidRun(h'.req))
         => (h'.resp.code = 400 /\ jobs' = jobs /\ JOBS' = JOBS)]_vars

\* C4 as amended: a run request whose payload lacks a required field never
\* creates a Job; it is answered 400 when fewer than MAX_RUNNING_JOBS jobs
\* are queued or running at the gate, and 429 when the gate is full, which
\* is checked before the payload is read.
C4_InvalidPayloadRejected ==
    [][/\ (Answers /\ InvalidRun(h'.req))
            => /\ jobs' = jobs /\ JOBS' = JOBS
               /\ h'.resp.code =
                    IF Cardinality(Nonterminal \cap JOBS) >= MAX_RUNNING_JOBS
                    THEN 429 ELSE 400
       /\ (Len(jobs') > Len(jobs))
            => ~MissingField(jobs'[Len(jobs')].tool, h.req.payload)]_vars

C4_Witness ==
    /\ h.pc = "sent"
    /\ InvalidRun(h.req)
    /\ h.resp.code = 400
    /\ h.resp.msg = "competitor_name is required"
    /\ \E j \in JOBS : jobs[j].status \in Terminal

\* C5: the gate answers a run request 429 and creates no Job when the jobs
\* queued or running number MAX_RUNNING_JOBS or more; when they are fewer,
\* one of them having succeeded or failed, a well-formed run request is
\* let through to the insertion.
C5_GateRejectsAndReopens ==
    [][(h.pc = "gate" /\ h' # h)
         => IF Cardinality(Nonterminal \cap JOBS) >= MAX_RUNNING_JOBS
            THEN /\ h'.pc = "sent" /\ h'.resp.code = 429
                 /\ jobs' = jobs /\ JOBS' = JOBS
            ELSE /\ h'.resp.code # 429
                 /\ (h'.req.tool \in TOOL_DEFS
                     /\ ~MissingField(h'.req.tool, h'.req.payload))
                      => h'.pc = "insert"]_vars

C5_Witness ==
    /\ h.pc = "sent"
    /\ h.resp.code = 202
    /\ h.resp.job_id = Some(2)
    /\ jobs[1].status \in Terminal
    /\ 1 \in JOBS

\* C6: in every reachable state at most MAX_RUNNING_JOBS jobs are queued
\* or running.
C6_CeilingHolds == Cardinality(Nonterminal) <= MAX_RUNNING_JOBS

C6_Witness ==
    /\ Len(jobs) = MaxJobs
    /\ Cardinality(Nonterminal) = MAX_RUNNING_JOBS
    /\ h.pc = "sent"
    /\ h.resp.code = 429
    /\ h.resp.msg = "too many jobs running, please retry shortly"

\* the calls before call i that were admitted for the same key inside the
\* window that ends at call i
AdmittedBefore(i) ==
    {k \in 1..(i - 1) :
        /\ rate_log[k].key = rate_log[i].key
        /\ rate_log[k].ok
        /\ rate_log[k].t >= rate_log[i].t - RATE_WINDOW_SEC}
Budget(key) == IF key[2] = "POST" THEN RATE_POST_MAX ELSE RATE_GET_MAX

\* C7: for each key a call is admitted exactly when fewer than the budget
\* of calls (RATE_POST_MAX for POST, RATE_GET_MAX otherwise) were admitted
\* for that key inside the window: the budget is admitted, the next call
\* inside the window is rejected, and a call is admitted again once the
\* window has passed over the admitted ones.
C7_RateBudget ==
    \A i \in DOMAIN rate_log :
        rate_log[i].ok <=> Cardinality(AdmittedBefore(i)) < Budget(rate_log[i].key)

C7_Witness ==
    \E i, k, m \in DOMAIN rate_log :
        /\ i < k /\ k < m
        /\ rate_log[i].key = rate_log[k].key /\ rate_log[k].key = rate_log[m].key
        /\ rate_log[i].ok /\ ~rate_log[k].ok /\ rate_log[m].ok
        /\ Cardinality(AdmittedBefore(k)) = Budget(rate_log[k].key)
        /\ rate_log[m].t > rate_log[i].t + RATE_WINDOW_SEC

\* the lines handed to append_log so far by the worker of job j while it
\* runs the tool: the command line, then the lines read, without their
\* newline
Appended(j) ==
    (IF pc[j] \in {"run_job", "live_repo"} THEN <<>>
     ELSE <<CommandLine(jobs[j].tool)>>)
    \o [i \in 1..calls[j] |-> SubSeq(script[i], 1, Len(script[i]) - 1)]

\* C8: a job's log never holds more than 1200 lines however many lines are
\* appended; it holds the latest of the appended lines in their order, the
\* older ones having been dropped 400 at a time.
C8_LogBounded ==
    \A j \in DOMAIN jobs :
        LET logs == jobs[j].logs
            all == Appended(j)
            dropped == Len(all) - Len(logs)
        IN  /\ Len(logs) <= LOG_CAP
            /\ pc[j] # "done"
                 => /\ dropped >= 0
                    /\ dropped % LOG_DROP = 0
                    /\ logs = SubSeq(all, dropped + 1, Len(all))
                    /\ dropped > 0 => Len(logs) > LOG_CAP - LOG_DROP

C8_Witness ==
    /\ calls[1] = LOG_CAP
    /\ Len(jobs[1].logs) = LOG_CAP - LOG_DROP + 1
    /\ jobs[1].logs[1] = <<ToString(LOG_DROP)>>

NoDupPaths(a) == \A i, k \in DOMAIN a : a[i].path = a[k].path => i = k
IsPrefix(a, b) == Len(a) <= Len(b) /\ SubSeq(b, 1, Len(a)) = a

\* C9: no two artifact records of a job have the same resolved path, and a
\* registration never changes the records already there: registering a
\* path again leaves the list as it was.
C9_RegisterIdempotent ==
    [][\A j \in DOMAIN jobs :
          /\ IsPrefix(jobs[j].artifacts, jobs'[j].artifacts)
          /\ NoDupPaths(jobs'[j].artifacts)]_vars

C9_Witness ==
    /\ script = <<ReportLine, InsideLine>>
    /\ jobs[1].tool = "competitive-deep-dive"
    /\ calls[1] = 2
    /\ Len(jobs[1].artifacts) = 1
    /\ jobs[1].artifacts[1].label = "Markdown"
    /\ jobs[1].artifacts[1].id = Uid(1, 1)

\* p is its own resolved form and lies in root
Within(p, root) ==
    /\ \E k \in 0..Len(p.parts) : SubSeq(p.parts, 1, k) = root.parts
    /\ \A k \in 1..Len(p.parts) :
         /\ p.parts[k] \notin {Dot, DotDot}
         /\ SubSeq(p.parts, 1, k) \notin DOMAIN fs.links

\* C10: a path found in a tool's output is registered only if its resolved
\* form is an existing regular file inside the job's tool root; a download
\* is served only if the resolved form of the stored path is a regular
\* file inside ARTIFACT_ROOT/<job id> or the job's tool root.
C10_PathsStayInside ==
    [][/\ \A j \in DOMAIN jobs :
            \A i \in DOMAIN jobs'[j].artifacts :
                (MODE = "live" /\ i > Len(jobs[j].artifacts))
                  => /\ Within(jobs'[j].artifacts[i].path, ToolRepo(jobs[j].tool))
                     /\ jobs'[j].artifacts[i].path.parts \in fs.files
       /\ (h.pc = "idle" /\ h'.pc = "sent" /\ h'.resp.code = 200)
            => LET f == TheValue(h'.resp.file)
                   job == jobs[h'.req.job_id]
               IN  /\ f.parts \in fs.files
                   /\ \/ Within(f, JobDir(job.id))
                      \/ Within(f, ToolRepo(job.tool))]_vars

C10_Witness ==
    /\ h.pc = "sent"
    /\ h.resp.code = 403
    /\ h.resp.msg = "artifact path denied"
    /\ script = <<ReportLine>>

\* C11: whenever a job is succeeded or failed and its worker is outside the
\* with JOBS_LOCK block that sets these fields: succeeded exactly when
\* return_code is 0, and then error is unset; failed with a return_code
\* other than 0 and error set; a live job whose child exited with N has
\* return_code N, and for N other than 0 the error "tool exited with code N".
C11_TerminalFields ==
    [][\A j \in DOMAIN jobs :
          LET job == jobs'[j]
          IN  (job.status \in Terminal /\ JOBS_LOCK' # {j})
                => /\ job.return_code # None
                   /\ job.status = "succeeded" <=> job.return_code = Some(0)
                   /\ job.status = "succeeded" => job.error = None
                   /\ job.status = "failed" => job.error # None
                   /\ (MODE = "live" /\ JOBS_LOCK = {j} /\ todo.next = "done")
                        => /\ job.return_code = Some(child[j].rc)
                           /\ child[j].rc # 0
                                => job.error = Some(ExitText(child[j].rc))]_vars

C11_Witness ==
    /\ MODE = "live"
    /\ pc[1] = "done"
    /\ jobs[1].status = "failed"
    /\ jobs[1].return_code = Some(2)
    /\ jobs[1].error = Some(<<"tool exited with code ", "2">>)
    /\ JOBS_LOCK = {}

\* the file names of the two artifacts of a demo job for subject
DemoNames(tool, subject) ==
    IF tool = "competitive-deep-dive"
    THEN << <<"demo_deepdive_">> \o _slug(subject) \o <<".md">>,
            <<"demo_deepdive_">> \o _slug(subject) \o <<".json">> >>
    ELSE << <<"demo_positioning_">> \o _slug(subject) \o <<".md">>,
            <<"demo_positioning_">> \o _slug(subject) \o <<".csv">> >>

\* C12: in demo mode a worker that has ended, however it ended, never had
\* a child process and leaves its job succeeded with return_code 0 and
\* exactly two artifacts, a markdown file and a data file named with the
\* slug of the subject; no demo job is failed.
C12_DemoAlwaysSucceeds ==
    \A j \in DOMAIN jobs :
        MODE # "live"
          => /\ child[j] = NoChild
             /\ jobs[j].status # "failed"
             /\ pc[j] \in {"done", "crashed"}
                  => /\ jobs[j].status = "succeeded"
                     /\ jobs[j].return_code = Some(0)
                     /\ Len(jobs[j].artifacts) = 2
                     /\ [i \in 1..2 |-> jobs[j].artifacts[i].name]
                          = DemoNames(jobs[j].tool, Acme)

\* the handler has answered a request to a path under /api/ that does not
\* carry the configured key
Unauthorized(req) ==
    /\ req.kind \in {"run", "job", "artifact", "health"}
    /\ ~_authorized(MODE, API_KEY, req.key)

\* C13: in live mode a request to a path under /api/, the liveness probe
\* included, that does not carry the configured key is refused and given
\* no job and no server data: it is answered 403, or 429 when the rate
\* limiter, which comes first, refuses it.
C13_KeyGatesApi ==
    (MODE = "live" /\ h.pc = "sent" /\ Unauthorized(h.req))
      => /\ h.resp.code \in {403, 429}
         /\ h.resp.job_id = None /\ h.resp.view = None /\ h.resp.file = None

\* the handler starts on a request: do_GET or do_POST is entered
Enter == h.pc = "idle" /\ h'.pc # "idle"

\* job id finished longer ago than the retention window
Expired(id) ==
    /\ jobs[id].finished_at # None
    /\ TheValue(jobs[id].finished_at) < now - JOB_RETENTION_SEC

\* the rate limiter lets the request through
SlotFree(req) == take_rate_slot(RATE_BUCKETS, req.ip, req.method, now).ok

\* C14 as stated: a request whose Origin is set and not allowed is answered
\* 403 and changes neither the job store, no job being created and none
\* removed, nor the rate-limit buckets.
C14_ForeignOriginNoEffect ==
    [][(Enter /\ ~_origin_allowed(h'.req.origin))
         => /\ h'.pc = "sent" /\ h'.resp.code = 403
            /\ jobs' = jobs /\ JOBS' = JOBS
            /\ RATE_BUCKETS' = RATE_BUCKETS]_vars

\* C14 as amended: a request whose Origin is set and not allowed is
\* answered 403 "origin not allowed", creates no job and leaves the
\* rate-limit buckets unchanged; the sweep has run before the origin
\* check, so the jobs finished longer ago than the retention window, and
\* no others, are removed from the store.
C14_ForeignOriginSweepsOnly ==
    [][(Enter /\ ~_origin_allowed(h'.req.origin))
         => /\ h'.pc = "sent" /\ h'.resp.code = 403
            /\ h'.resp.msg = "origin not allowed"
            /\ jobs' = jobs
            /\ RATE_BUCKETS' = RATE_BUCKETS
            /\ JOBS' = {id \in JOBS : ~Expired(id)}]_vars

C14_Witness ==
    /\ h.pc = "sent"
    /\ h.req.origin = Foreign
    /\ h.resp.code = 403
    /\ jobs # <<>> /\ jobs[1].finished_at = Some(0)
    /\ 1 \notin JOBS
    /\ RATE_BUCKETS = (<<"10.0.0.1", "POST">> :> <<0>>)

\* C15: the sweep at the entry of do_GET and do_POST removes from the
\* store exactly the jobs finished longer ago than the retention window,
\* never a job that is queued, running or finished within the window; a
\* second sweep right after it removes nothing; nothing else removes a
\* job; and a poll of a job finished longer ago than the window is never
\* given the job: it is answered 404 once it is past the origin check and
\* the rate limiter.
C15_SweepExact ==
    [][/\ Enter => /\ JOBS' = {id \in JOBS : ~Expired(id)}
                   /\ cleanup_jobs(JOBS', jobs', now') = JOBS'
       /\ ~Enter => JOBS \subseteq JOBS'
       /\ (Enter /\ h'.req.kind = "job" /\ h'.req.job_id \in DOMAIN jobs
              /\ Expired(h'.req.job_id))
            => /\ h'.pc = "sent"
               /\ h'.resp.view = None
               /\ (_origin_allowed(h'.req.origin) /\ SlotFree(h'.req))
                    => h'.resp.code = 404]_vars

C15_Witness ==
    /\ h.pc = "sent"
    /\ h.req.kind = "job" /\ h.req.job_id = 1
    /\ h.resp.code = 404
    /\ jobs # <<>> /\ jobs[1].finished_at = Some(0)
    /\ now = JOB_RETENTION_SEC + 1
    /\ Len(jobs) = 2 /\ jobs[2].finished_at = Some(1) /\ 2 \in JOBS

\* the job named by the request has an artifact record with the id named
Owns(req) ==
    /\ req.job_id \in DOMAIN jobs
    /\ \E i \in DOMAIN jobs[req.job_id].artifacts :
         jobs[req.job_id].artifacts[i].id = req.artifact_id

\* C16: a download whose artifact id is not the id of an artifact record
\* of the job named in the path is given no file, also when another stored
\* job has an artifact with that id: it is answered 404 once it is past
\* the origin check and the rate limiter; a file that is served is the
\* file of an artifact record of the job named.
C16_ArtifactOfNamedJob ==
    [][(Enter /\ h'.req.kind = "artifact")
         => /\ h'.pc = "sent"
            /\ ~Owns(h'.req)
                 => /\ h'.resp.file = None
                    /\ (_origin_allowed(h'.req.origin) /\ SlotFree(h'.req))
                         => h'.resp.code = 404
            /\ h'.resp.file # None
                 => \E i \in DOMAIN jobs[h'.req.job_id].artifacts :
                      /\ jobs[h'.req.job_id].artifacts[i].id = h'.req.artifact_id
                      /\ TheValue(h'.resp.file)
                           = resolve(jobs[h'.req.job_id].artifacts[i].path, fs)]_vars

C16_Witness ==
    /\ h.pc = "sent"
    /\ h.req.kind = "artifact" /\ h.req.job_id = 1
    /\ h.resp.code = 404
    /\ JOBS = {1, 2}
    /\ Len(jobs[1].artifacts) = 2
    /\ \E i \in DOMAIN jobs[2].artifacts : jobs[2].artifacts[i].id = h.req.artifact_id

\* C17: the view a poll returns never shows a transition half applied:
\* not failed with error unset, not succeeded or failed with return_code
\* or finished_at unset, not running with return_code or finished_at set.
C17_ViewNeverPartial ==
    (h.pc = "sent" /\ h.resp.view # None)
      => LET view == TheValue(h.resp.view)
         IN  /\ view.status = "failed" => view.error # None
             /\ view.status \in Terminal
                  => view.return_code # None /\ view.finished_at # None
             /\ view.status = "running"
                  => view.return_code = None /\ view.finished_at = None

\* C18: every step of a worker that writes a field of its Job, the log and
\* the artifact list included, is taken while the worker holds JOBS_LOCK.
C18_WritesUnderLock ==
    [][\A j \in DOMAIN jobs : jobs'[j] # jobs[j] => JOBS_LOCK = {j}]_vars

\* C19: no thread holds JOBS_LOCK and RATE_LOCK together; a worker holds
\* JOBS_LOCK only inside a block of at most four assignments, never where
\* it spawns, reads, waits or writes a file; the handler holds a lock only
\* for the sweep, the rate slot and the lookup; whoever holds a lock can
\* take its next step, so no lock is held for ever and a poll waits for a
\* running job's worker no longer than such a block.
C19_NoLockHeldWhileBlocked ==
    /\ JOBS_LOCK \cap RATE_LOCK = {}
    /\ RATE_LOCK \subseteq {0}
    /\ RATE_LOCK = {0} => h.pc = "rate_locked" /\ ENABLED GetRate
    /\ JOBS_LOCK = {0}
         => h.pc \in {"sweep", "lookup_locked"} /\ ENABLED (GetSweep \/ GetLookup)
    /\ \A j \in DOMAIN jobs :
         /\ JOBS_LOCK = {j}
              => /\ pc[j] = "locked"
                 /\ Len(todo.writes) <= 4
                 /\ ENABLED (Assigns(j) \/ Leaves(j))
         /\ pc[j] \in {"live_spawn", "live_stream", "live_wait", "demo_mkdir",
                        "demo_write"}
              => JOBS_LOCK # {j}
    /\ h.pc \notin {"sweep", "lookup_locked"} => JOBS_LOCK # {0}

C19_Witness ==
    /\ h.pc = "lookup"
    /\ JOBS_LOCK = {1}
    /\ Len(todo.writes) = 4
    /\ jobs[1].status = "running"
    /\ child[1].state = "killed"

\* C20: started_at and finished_at are written once and keep their value;
\* finished_at is never set while started_at is unset; and between the
\* with JOBS_LOCK blocks of the worker started_at is unset exactly while
\* the job is queued and finished_at exactly while it is queued or
\* running.
C20_TimestampsOnce ==
    [][\A j \in DOMAIN jobs :
          LET a == jobs[j]
              b == jobs'[j]
          IN  /\ a.started_at # None => b.started_at = a.started_at
              /\ a.finished_at # None => b.finished_at = a.finished_at
              /\ b.finished_at # None => b.started_at # None
              /\ JOBS_LOCK' # {j}
                   => /\ b.started_at = None <=> b.status = "queued"
                      /\ b.finished_at = None
                           <=> b.status \in {"queued", "running"}]_vars

C20_Witness ==
    /\ JOBS_LOCK = {}
    /\ jobs[1].status = "succeeded"
    /\ jobs[1].started_at = Some(0)
    /\ jobs[1].finished_at = Some(ClockStep)

\* C21: once a job is succeeded or failed its logs and its artifacts never
\* change again, on every path of the demo and the live runner.
C21_LogsFrozenWhenTerminal ==
    [][\A j \in DOMAIN jobs :
          jobs[j].status \in Terminal
            => /\ jobs'[j].logs = jobs[j].logs
               /\ jobs'[j].artifacts = jobs[j].artifacts]_vars

\* C22: in live mode a job whose tool repository does not exist never has
\* a child process and is never succeeded; it leaves running for failed
\* with return_code -1 and the error "tool repo not found: <repo>", and
\* its worker ends with the job failed.
C22_MissingRepoFails ==
    [][\A j \in DOMAIN jobs :
          (MODE = "live" /\ ~exists(ToolRepo(jobs[j].tool), fs))
            => /\ child'[j] = NoChild
               /\ jobs'[j].status # "succeeded"
               /\ (jobs[j].status = "running" /\ jobs'[j].status # "running")
                    => /\ jobs'[j].status = "failed"
                       /\ jobs'[j].return_code = Some(-1)
                       /\ jobs'[j].error
                            = Some(<<"tool repo not found: ", jobs[j].tool>>)
               /\ pc'[j] \in {"done", "crashed"} => jobs'[j].status = "failed"]_vars

C22_Witness ==
    /\ MODE = "live"
    /\ fs = FsBase
    /\ pc[1] = "done"
    /\ jobs[1].status = "failed"
    /\ jobs[1].return_code = Some(-1)
    /\ jobs[1].finished_at # None
    /\ Len(jobs[1].logs) = 1

\* the timestamps kept for key
Bucket(buckets, key) == IF key \in DOMAIN buckets THEN buckets[key] ELSE <<>>

Sorted(q) == \A i, k \in DOMAIN q : i <= k => q[i] <= q[k]

\* the last call of take_rate_slot
LastCall == rate_log'[Len(rate_log')]

\* C23: every bucket holds at most its budget of timestamps, RATE_POST_MAX
\* for a POST key and RATE_GET_MAX otherwise, in non-decreasing order; a
\* call that is rejected adds no timestamp to its bucket and an admitted
\* one adds its own; a call leaves the bucket of every other key as it
\* was, and with it the answer a call for that key would get.
C23_BucketsBoundedAndApart ==
    [][/\ \A key \in DOMAIN RATE_BUCKETS' :
            /\ Len(RATE_BUCKETS'[key]) <= Budget(key)
            /\ Sorted(RATE_BUCKETS'[key])
       /\ rate_log' # rate_log
            => LET key == LastCall.key
                   old == IF key \in DOMAIN RATE_BUCKETS
                          THEN DropOld(RATE_BUCKETS[key], now - RATE_WINDOW_SEC)
                          ELSE <<>>
               IN  /\ Bucket(RATE_BUCKETS', key)
                        = IF LastCall.ok THEN Append(old, now) ELSE old
                   /\ \A other \in RateKeys \ {key} :
                        /\ other \in DOMAIN RATE_BUCKETS' <=> other \in DOMAIN RATE_BUCKETS
                        /\ other \in DOMAIN RATE_BUCKETS
                             => RATE_BUCKETS'[other] = RATE_BUCKETS[other]
                        /\ take_rate_slot(RATE_BUCKETS', other[1], other[2], now).ok
                             = take_rate_slot(RATE_BUCKETS, other[1], other[2], now).ok]_vars

C23_Witness ==
    /\ Len(rate_log) >= RATE_POST_MAX + 2
    /\ \E i \in DOMAIN rate_log :
         /\ i < Len(rate_log)
         /\ rate_log[i].key = <<"10.0.0.1", "POST">>
         /\ ~rate_log[i].ok
         /\ rate_log[i + 1].key = <<"10.0.0.1", "GET">>
         /\ rate_log[i + 1].ok
         /\ rate_log[i + 1].t = rate_log[i].t
    /\ Len(RATE_BUCKETS[<<"10.0.0.1", "POST">>]) = RATE_POST_MAX

\* C24: a POST from an allowed origin that the rate limiter lets through
\* has its timestamp in the client's POST bucket whatever the answer, and
\* no later step of the request takes it out; a POST that finds
\* RATE_POST_MAX timestamps of the window in the bucket, those of rejected
\* requests included, is answered 429 and creates no Job.
C24_RejectedPostsCount ==
    [][/\ (Enter /\ h'.req.method = "POST" /\ _origin_allowed(h'.req.origin))
            => LET key == <<h'.req.ip, "POST">>
                   old == IF key \in DOMAIN RATE_BUCKETS
                          THEN DropOld(RATE_BUCKETS[key], now - RATE_WINDOW_SEC)
                          ELSE <<>>
               IN  IF Len(old) >= RATE_POST_MAX
                   THEN /\ h'.pc = "sent" /\ h'.resp.code = 429
                        /\ h'.resp.msg = "rate limit exceeded"
                        /\ Bucket(RATE_BUCKETS', key) = old
                   ELSE /\ Bucket(RATE_BUCKETS', key) = Append(old, now)
                        /\ h'.resp.code \in {0, 403, 404}
       /\ h.pc # "idle" => RATE_BUCKETS' = RATE_BUCKETS
       /\ h.pc # "insert" => Len(jobs') = Len(jobs) /\ JOBS' \subseteq JOBS]_vars

C24_Witness ==
    /\ h.pc = "sent"
    /\ h.req = Req("POST", <<>>, API_KEY, "10.0.0.1", "run", "", NoPayload, 0, <<>>)
    /\ h.resp.code = 429
    /\ h.resp.msg = "rate limit exceeded"
    /\ jobs = <<>>
    /\ RATE_BUCKETS[<<"10.0.0.1", "POST">>] = <<now, now>>

====
